---------------------------- MODULE Spec2Model ----------------------------
(***************************************************************************)
(* A model of ManifoldTwinsAnalysis (src/manifold_twins.py).               *)
(*                                                                         *)
(* The module holds ten specifications over one set of variables:          *)
(*   SpecOos   the out-of-sample GP prediction loop (_predict_gp_oos);     *)
(*   Spec      the two cached estimation stages (model_maximum_spectra,    *)
(*             read_between_the_lines) of one analysis object and the      *)
(*             on-disk result cache they share;                            *)
(*   SpecHash  two analyses that differ in one setting, run one after      *)
(*             the other against the same cache;                           *)
(*   SpecInit  the target loop of the constructor (__init__);              *)
(*   SpecStages  all stages of one analysis object, called in any order:   *)
(*             the two cached stages, build_masks, generate_embedding,     *)
(*             get_mags, fit_gp and apply_gp_standardization;              *)
(*   SpecChain two analyses that differ in one setting, each running the   *)
(*             two cached stages against the same cache;                   *)
(*   SpecMeta  read_meta on a working sample of spectra and targets;       *)
(*   SpecPhase the row of phase coefficients that model_maximum_spectra    *)
(*             builds for one spectrum;                                    *)
(*   SpecAlign the constructor followed by the assignment of the           *)
(*             per-target arrays;                                          *)
(*   SpecMasks get_mags and calculate_salt_hubble_residuals on an          *)
(*             analysis whose embedding has been generated.                *)
(* Each specification leaves the variables of the others at their idle     *)
(* values.                                                                 *)
(***************************************************************************)
EXTENDS Integers, Sequences, FiniteSets, TLC

VARIABLES
    \* ---- _predict_gp_oos
    gp_in,        \* the arguments of the call
    gp_idx,       \* the loop variable idx (1-based here)
    cond_preds,   \* the list cond_preds
    cond_vars,    \* the list cond_vars
    gp_calls,     \* number of calls made to _predict_gp
    gp_out,       \* the returned arrays
    gp_pc,        \* "idle", "loop", "done" or "IndexError"
    \* ---- the analysis object and the result cache
    settings,       \* self.settings
    other_settings, \* the settings of the other analysis (SpecHash)
    analysis_no,    \* which analysis object is the current one (SpecHash)
    subset,         \* the "idr.subset" metadata of each target
    train_mask,     \* self.train_mask
    self,           \* the attributes the stages assign, and which are set
    cache,          \* the on-disk result cache: hash -> entry
    last_call,      \* what the last stage call did and how it ended
    returned_ok,    \* the stages that have returned normally on this object
    \* ---- the embedding and standardization stages
    env,            \* what the object was given from outside (stays as it is)
    trace,          \* details of the last call of an embedding or GP stage
    calls_left,     \* stage calls the script still makes (NoLimit: any number)
    \* ---- the target loop of __init__
    ctor_pc,          \* "idle", "loop", "done" or "IndexError"
    ds_seen,          \* the targets of dataset.targets iterated so far
    all_raw_spec,     \* the list all_raw_spec
    center_mask,      \* the list center_mask
    attrition,        \* the four attrition_* counters
    marked_unusable   \* the spectra whose usable flag was set to False

oosVars == <<gp_in, gp_idx, cond_preds, cond_vars, gp_calls, gp_out, gp_pc>>

pipeVars == <<settings, other_settings, analysis_no, subset, train_mask, self,
              cache, last_call,
              returned_ok>>

stageVars == <<env, trace, calls_left>>

ctorVars == <<ctor_pc, ds_seen, all_raw_spec, center_mask, attrition,
              marked_unusable>>

vars == <<oosVars, pipeVars, ctorVars, stageVars>>

-----------------------------------------------------------------------------
(* Bounds of the model. *)

MaxPoints == 3

NumTargets == 2

MaxCoef == 2

\* The most targets a dataset holds, and the most spectra of one target that
\* lie in the phase range.
MaxDataset == 2

MaxRange == 2

\* The most stage calls made on the object of SpecStages.
MaxCalls == 5

-----------------------------------------------------------------------------
(* numpy helpers used by _predict_gp_oos. Arrays are sequences; Python's   *)
(* 0-based idx is 1-based here.                                            *)

\* arr[mask] for a boolean mask of the array's length: the entries whose mask
\* entry is True, in order.
RECURSIVE BoolIndex(_, _)
BoolIndex(arr, mask) ==
    IF arr = <<>> THEN <<>>
    ELSE IF Head(mask)
         THEN <<Head(arr)>> \o BoolIndex(Tail(arr), Tail(mask))
         ELSE BoolIndex(Tail(arr), Tail(mask))

\* numpy raises IndexError when a boolean index does not have the length of
\* the indexed axis.
MaskFits(arr, mask) == Len(mask) = Len(arr)

\* ~mask
NotMask(mask) == [i \in 1..Len(mask) |-> ~mask[i]]

\* groups[idx] == groups: elementwise comparison against the whole array.
EqMask(arr, v) == [i \in 1..Len(arr) |-> arr[i] = v]

NpDeleteNext(arr, idx) ==
    [i \in 1..(Len(arr) - 1) |-> IF i <= idx THEN arr[i] ELSE arr[i + 1]]

\* np.delete(arr, idx, axis=0)
NpDelete(arr, idx) ==
    [i \in 1..(Len(arr) - 1) |-> IF i < idx THEN arr[i] ELSE arr[i + 1]]

\* The positions of the True entries of a mask, in increasing order.
TruePositions(mask) == BoolIndex([i \in 1..Len(mask) |-> i], mask)

MaskAssignFront(base, mask, values) ==
    [i \in 1..Len(base) |-> IF i <= Len(values) THEN values[i] ELSE base[i]]

\* base[mask] = values: the k-th True position receives values[k].
MaskAssign(base, mask, values) ==
    LET pos == TruePositions(mask)
    IN  [i \in 1..Len(base) |->
            IF mask[i]
            THEN values[CHOOSE k \in 1..Len(pos) : pos[k] = i]
            ELSE base[i]]

-----------------------------------------------------------------------------
(* _predict_gp. The Gaussian process itself is an external library; a      *)
(* prediction is represented by the data it was computed from: the point   *)
(* (and color) predicted and the four conditioning arrays.                 *)

NoPred == [part |-> "zero", at |-> 0, color |-> 0,
           cond_x |-> <<>>, cond_y |-> <<>>, cond_yerr |-> <<>>,
           cond_color |-> <<>>]

predict_gp(part, pred_x, pred_color, c_x, c_y, c_yerr, c_color) ==
    [part |-> part, at |-> pred_x, color |-> pred_color,
     cond_x |-> c_x, cond_y |-> c_y, cond_yerr |-> c_yerr,
     cond_color |-> c_color]

\* A vectorised call: one prediction per row of pred_x, all from the same
\* conditioning data.
predict_gp_many(part, pred_x, pred_color, c_x, c_y, c_yerr, c_color) ==
    [k \in 1..Len(pred_x) |->
        predict_gp(part, pred_x[k], pred_color[k], c_x, c_y, c_yerr, c_color)]

-----------------------------------------------------------------------------
(* _predict_gp_oos. Row i of the input carries x[i], y[i], yerr[i] and     *)
(* color[i]; each array is represented by the sequence of its row numbers, *)
(* so that what a prediction was conditioned on can be read off.           *)

GroupLabels == {"a", "b"}

Rows(n) == [i \in 1..n |-> i]

\* An optional array argument: given = FALSE stands for None.
NoneArg == [given |-> FALSE, val |-> <<>>]

SomeArg(v) == [given |-> TRUE, val |-> v]

OptionalArrays(n, S) == {NoneArg} \cup {SomeArg(v) : v \in [1..n -> S]}

\* Lines 592-601: the conditioning subset of one input array.
CondOf(arr, condition_mask) ==
    IF condition_mask.given THEN BoolIndex(arr, condition_mask.val) ELSE arr

cond_x == CondOf(gp_in.x, gp_in.condition_mask)

cond_y == CondOf(gp_in.y, gp_in.condition_mask)

cond_yerr == CondOf(gp_in.yerr, gp_in.condition_mask)

cond_color == CondOf(gp_in.color, gp_in.condition_mask)

\* Lines 607-608: the rows that match the group of the loop index. groups is
\* the array as passed in and idx counts rows of the conditioning subset.
MatchIdx(groups, idx) == EqMask(groups, groups[idx])

\* Lines 609-617: one conditioning array with the left-out rows removed.
DelOf(arr, groups, idx) ==
    IF groups.given
    THEN BoolIndex(arr, NotMask(MatchIdx(groups.val, idx)))
    ELSE NpDelete(arr, idx)

OosInit ==
    /\ \E n \in 1..MaxPoints :
       \E cm \in OptionalArrays(n, BOOLEAN), g \in OptionalArrays(n, GroupLabels),
          rv \in BOOLEAN :
            gp_in = [x |-> Rows(n), y |-> Rows(n), yerr |-> Rows(n),
                     color |-> Rows(n), condition_mask |-> cm, groups |-> g,
                     return_var |-> rv]
    /\ gp_idx = 1
    /\ cond_preds = <<>>
    /\ cond_vars = <<>>
    /\ gp_calls = 0
    /\ gp_out = [all_preds |-> <<>>, all_vars |-> <<>>]
    /\ gp_pc = "loop"

\* Lines 606-633: one iteration of the loop over the conditioning subset.
OosLoopStep ==
    /\ gp_pc = "loop"
    /\ gp_idx <= Len(cond_x)
    /\ IF gp_in.groups.given
          /\ ~MaskFits(cond_x, NotMask(MatchIdx(gp_in.groups.val, gp_idx)))
       THEN /\ gp_pc' = "IndexError"
            /\ UNCHANGED <<gp_idx, cond_preds, cond_vars, gp_calls>>
       ELSE /\ cond_preds' = Append(cond_preds,
                predict_gp("mean", cond_x[gp_idx], cond_color[gp_idx],
                    DelOf(cond_x, gp_in.groups, gp_idx),
                    DelOf(cond_y, gp_in.groups, gp_idx),
                    DelOf(cond_yerr, gp_in.groups, gp_idx),
                    DelOf(cond_color, gp_in.groups, gp_idx)))
            /\ cond_vars' =
                IF gp_in.return_var
                THEN Append(cond_vars,
                    predict_gp("var", cond_x[gp_idx], cond_color[gp_idx],
                        DelOf(cond_x, gp_in.groups, gp_idx),
                        DelOf(cond_y, gp_in.groups, gp_idx),
                        DelOf(cond_yerr, gp_in.groups, gp_idx),
                        DelOf(cond_color, gp_in.groups, gp_idx)))
                ELSE cond_vars
            /\ gp_calls' = gp_calls + 1
            /\ gp_idx' = gp_idx + 1
            /\ gp_pc' = "loop"
    /\ UNCHANGED <<gp_in, gp_out>>
    /\ UNCHANGED <<pipeVars, ctorVars, stageVars>>

Zeros(n) == [i \in 1..n |-> NoPred]

\* Lines 635-666: the predictions for the points outside the conditioning
\* subset and the assembly of the returned arrays.
OosFinish ==
    /\ gp_pc = "loop"
    /\ gp_idx > Len(cond_x)
    /\ IF ~gp_in.condition_mask.given
       THEN /\ gp_out' = [all_preds |-> cond_preds,
                          all_vars |-> IF gp_in.return_var THEN cond_vars ELSE <<>>]
            /\ gp_calls' = gp_calls
       ELSE LET mask == gp_in.condition_mask.val
                n == Len(gp_in.x)
                other_pred == predict_gp_many("mean",
                    BoolIndex(gp_in.x, NotMask(mask)),
                    BoolIndex(gp_in.color, NotMask(mask)),
                    cond_x, cond_y, cond_yerr, cond_color)
                other_vars == predict_gp_many("var",
                    BoolIndex(gp_in.x, NotMask(mask)),
                    BoolIndex(gp_in.color, NotMask(mask)),
                    cond_x, cond_y, cond_yerr, cond_color)
            IN  /\ gp_out' =
                    [all_preds |->
                        MaskAssign(MaskAssign(Zeros(n), mask, cond_preds),
                                   NotMask(mask), other_pred),
                     all_vars |->
                        IF gp_in.return_var
                        THEN MaskAssign(MaskAssign(Zeros(n), mask, cond_vars),
                                        NotMask(mask), other_vars)
                        ELSE <<>>]
                /\ gp_calls' = gp_calls + 1
    /\ gp_pc' = "done"
    /\ UNCHANGED <<gp_in, gp_idx, cond_preds, cond_vars>>
    /\ UNCHANGED <<pipeVars, ctorVars, stageVars>>

OosNext == OosLoopStep \/ OosFinish

-----------------------------------------------------------------------------
(* Strings. A string is a sequence of characters and a character is a      *)
(* one-element tuple, so that a digest (below) can stand in a string as    *)
(* one more symbol.                                                        *)

S(s) == [i \in DOMAIN s |-> <<s[i]>>]

Digits == <<"0", "1", "2", "3", "4", "5", "6", "7", "8", "9">>

\* str(n) of a non-negative integer: its decimal digits.
RECURSIVE Str(_)
Str(n) ==
    IF n < 10 THEN S(<<Digits[n + 1]>>)
    ELSE Str(n \div 10) \o S(<<Digits[(n % 10) + 1]>>)

\* md5(s.encode("ascii")).hexdigest(). The digest is taken to be collision
\* free: it is one symbol that stands for the string digested, and it holds no
\* separator.
md5_hexdigest(s) == <<s>>

-----------------------------------------------------------------------------
(* Settings and the cache keys built from them.                            *)

IdrValues == {S(<<"A">>), S(<<"A", "1">>)}

SettingValues == {1, 12}

Subsets == {"training", "validation", "other"}

\* The parameters that enter dataset_hash, in the order of lines 148-155.
DatasetHashParams ==
    <<"phase_range", "bin_velocity", "bin_min_wavelength", "bin_max_wavelength",
      "s2n_cut_min_wavelength", "s2n_cut_max_wavelength", "s2n_cut_threshold">>

RECURSIVE JoinFrom(_, _, _)
JoinFrom(st, params, i) ==
    IF i > Len(params) THEN <<>>
    ELSE S(<<";">>) \o Str(st[params[i]]) \o JoinFrom(st, params, i + 1)

DatasetHashInfoNoBinVelocity(st) ==
    st.idr \o JoinFrom(st, <<"phase_range", "bin_min_wavelength",
        "bin_max_wavelength", "s2n_cut_min_wavelength",
        "s2n_cut_max_wavelength", "s2n_cut_threshold">>, 1)

\* Lines 147-156: hash_info of __init__.
DatasetHashInfo(st) == st.idr \o JoinFrom(st, DatasetHashParams, 1)

\* Line 157
dataset_hash(st) == md5_hexdigest(DatasetHashInfo(st))

\* The hashes utils.load_stan_model returns for the two Stan model files.
\* The models are files of the repository that the analysis does not change.
PhaseModelHash == S(<<"p">>)

RbtlModelHash == S(<<"r">>)

\* Lines 251-255: hash_info of model_maximum_spectra.
MaximumHashInfo(st) ==
    dataset_hash(st) \o S(<<";">>) \o PhaseModelHash \o S(<<";">>)
        \o Str(st.maximum_num_phase_coefficients)

\* Line 256
maximum_hash(st) == md5_hexdigest(MaximumHashInfo(st))

RbtlHashInfoNoRv(max_hash, st) == max_hash \o S(<<";">>) \o RbtlModelHash

\* Lines 367-371: hash_info of read_between_the_lines, from self.maximum_hash.
RbtlHashInfo(max_hash, st) ==
    max_hash \o S(<<";">>) \o RbtlModelHash \o S(<<";">>)
        \o Str(st.rbtl_fiducial_rv)

\* Line 372
rbtl_hash(max_hash, st) == md5_hexdigest(RbtlHashInfo(max_hash, st))

-----------------------------------------------------------------------------
(* The result cache (utils.load_stan_result, utils.save_stan_result). An   *)
(* entry is a stored result or an unreadable file. An optional value is a  *)
(* set: {} is None, {r} is r.                                              *)

None == {}

\* by records which analysis object wrote the entry (0: it was there before).
CorruptEntry == [ok |-> FALSE, result |-> <<>>, by |-> 0]

GoodEntry(result, by) == [ok |-> TRUE, result |-> result, by |-> by]

\* load(hash) -> result | missing; any load failure reads as missing.
load_stan_result(c, h) ==
    IF h \in DOMAIN c /\ c[h].ok THEN {c[h].result} ELSE None

\* save(hash, result)
save_stan_result(c, h, result) == (h :> GoodEntry(result, analysis_no)) @@ c

-----------------------------------------------------------------------------
(* Results of the two optimizations. An array over targets is a sequence   *)
(* of NumTargets values.                                                   *)

Targets == 1..NumTargets

ConstArr(v) == [i \in Targets |-> v]

FluxValues == {2, 4}

MagValues == {1, 2}

\* np.nan
NaN == -1

\* What model.optimizing can return in model_maximum_spectra.
\* The uncertainty of the first target grows faster than the flux and that of
\* the others stays at 2, so that the relative uncertainty is the same for all
\* targets at the lower flux and differs between them at the higher.
MaxResults ==
    {[maximum_flux |-> ConstArr(f),
      maximum_fluxerr |-> [i \in Targets |-> IF i = 1 THEN (f * f) \div 2 ELSE 2]] :
        f \in FluxValues}

\* What model.optimizing can return in read_between_the_lines.
RbtlResults ==
    {[magnitudes |-> ConstArr(mg), colors |-> ConstArr(1), mean_flux |-> 1,
      model_scales |-> ConstArr(2), fractional_dispersion |-> 1] :
        mg \in MagValues}

NoMaxResult == [maximum_flux |-> <<>>, maximum_fluxerr |-> <<>>]

NoRbtlResult == [magnitudes |-> <<>>, colors |-> <<>>, mean_flux |-> 0,
                 model_scales |-> <<>>, fractional_dispersion |-> 0]

\* The attributes of a freshly constructed analysis that the stages assign.
\* has is the set of those that exist on the object.
FreshSelf ==
    [has |-> {},
     maximum_hash |-> <<>>, maximum_result |-> NoMaxResult,
     maximum_flux |-> <<>>, maximum_fluxerr |-> <<>>,
     rbtl_hash |-> <<>>, rbtl_result |-> NoRbtlResult,
     rbtl_colors |-> <<>>, rbtl_mags |-> <<>>, mean_flux |-> 0,
     scale_flux |-> <<>>, scale_fluxerr |-> <<>>,
     uncertainty_mask |-> <<>>, redshift_color_mask |-> <<>>,
     isomap_diffs |-> <<>>, embedding |-> <<>>,
     mag_mask |-> <<>>, good_mag_mask |-> <<>>, interp_mask |-> <<>>,
     salt_hr |-> <<>>, salt_hr_raw |-> <<>>,
     salt_mask |-> <<>>, good_salt_mask |-> <<>>,
     gp_hyperparameters |-> <<>>, corr_mags |-> <<>>, corr_vars |-> <<>>,
     gp_hyperparameter_covariance |-> <<>>]

TrainMaskOnlyTraining(sub) == [i \in DOMAIN sub |-> sub[i] = "training"]

\* Lines 142-144
TrainMaskOf(sub) == [i \in DOMAIN sub |-> sub[i] # "validation"]

\* How the cache read of a call went: "none" when the cache was not read.
LoadStatus(use_cache, c, h) ==
    IF ~use_cache THEN "none"
    ELSE IF h \notin DOMAIN c THEN "missing"
    ELSE IF ~c[h].ok THEN "corrupt"
    ELSE "found"

\* The record of a stage call: the stage, its use_cache argument, how the
\* cache read went, how the call ended ("ok" or the exception raised), whether
\* a cached result was adopted, whether the optimizer was invoked, whether a
\* cache entry was written, and the stage, argument and end of the call before.
Brief(call) ==
    [op |-> call.op, use_cache |-> call.use_cache, outcome |-> call.outcome]

NoBrief == [op |-> "none", use_cache |-> FALSE, outcome |-> "none"]

NoCall ==
    [op |-> "none", use_cache |-> FALSE, load |-> "none", outcome |-> "none",
     hit |-> FALSE, optimized |-> FALSE, saved |-> FALSE, prev |-> NoBrief]

Call(op, use_cache, load, outcome, hit, optimized, saved) ==
    [op |-> op, use_cache |-> use_cache, load |-> load, outcome |-> outcome,
     hit |-> hit, optimized |-> optimized, saved |-> saved,
     prev |-> Brief(last_call)]

\* What is recorded of the last call of an embedding or GP stage: its kind
\* argument, the vector minimize was started from and whether it was called,
\* the phase argument, whether scene_model could be imported, whether the
\* warning of fit_gp was printed, and the attributes get_mags looked up. The
\* cached stages record nothing here.
NoTrace ==
    [kind |-> "none", start |-> <<>>, minimized |-> FALSE, phase |-> FALSE,
     scene_model |-> FALSE, warned |-> FALSE, reads |-> {}]

\* calls_left when the number of calls is not limited.
NoLimit == -1

\* calls_left after one more call.
Spend(n) == IF n > 0 THEN n - 1 ELSE n

CacheHitWithoutNoneCheck(use_cache, cache_result) == use_cache

CacheHitNever(use_cache, cache_result) == FALSE

\* Lines 259-261 and 375-377: use_cache, and the load returned a result.
CacheHit(use_cache, cache_result) == use_cache /\ cache_result # None

\* Line 273
IsOdd(n) == n % 2 # 0

-----------------------------------------------------------------------------
(* model_maximum_spectra(use_cache)                                        *)

\* Lines 262-266: the cached result is adopted.
AdoptMaximum(use_cache, h, cache_result) ==
    IF cache_result = None
    THEN \* self.maximum_result = None, then None["maximum_flux"] raises
         /\ self' = [self EXCEPT !.has = @ \cup {"maximum_hash", "maximum_result"},
                                 !.maximum_hash = h,
                                 !.maximum_result = NoMaxResult]
         /\ last_call' = Call("maximum", use_cache, LoadStatus(use_cache, cache, h),
                           "TypeError", TRUE, FALSE, FALSE)
         /\ UNCHANGED cache
    ELSE LET r == CHOOSE x \in cache_result : TRUE
         IN  /\ self' = [self EXCEPT
                    !.has = @ \cup {"maximum_hash", "maximum_result",
                                    "maximum_flux", "maximum_fluxerr"},
                    !.maximum_hash = h,
                    !.maximum_result = r,
                    !.maximum_flux = r.maximum_flux,
                    !.maximum_fluxerr = r.maximum_fluxerr]
             /\ last_call' = Call("maximum", use_cache, LoadStatus(use_cache, cache, h),
                           "ok", TRUE, FALSE, FALSE)
             /\ UNCHANGED cache

\* Lines 273-274: the configuration error.
RaiseOddCoefficients(use_cache, h) ==
    /\ self' = [self EXCEPT !.has = @ \cup {"maximum_hash"}, !.maximum_hash = h]
    /\ last_call' = Call("maximum", use_cache, LoadStatus(use_cache, cache, h),
                           "ConfigError", FALSE, FALSE, FALSE)
    /\ UNCHANGED cache

OptimizeMaximumSaveOnRaise(use_cache, h) ==
    \/ \E result \in MaxResults :
        /\ self' = [self EXCEPT
                !.has = @ \cup {"maximum_hash", "maximum_result",
                                "maximum_flux", "maximum_fluxerr"},
                !.maximum_hash = h,
                !.maximum_result = result,
                !.maximum_flux = result.maximum_flux,
                !.maximum_fluxerr = result.maximum_fluxerr]
        /\ cache' = save_stan_result(cache, h, result)
        /\ last_call' = Call("maximum", use_cache, LoadStatus(use_cache, cache, h),
                           "ok", FALSE, TRUE, TRUE)
    \/ /\ self' = [self EXCEPT !.has = @ \cup {"maximum_hash"},
                               !.maximum_hash = h]
       /\ last_call' = Call("maximum", use_cache, LoadStatus(use_cache, cache, h),
                           "OptimizerError", FALSE, TRUE, FALSE)
       /\ cache' = save_stan_result(cache, h, NoMaxResult)

\* Lines 276-344: the arrays are built, the optimizer runs, its result is
\* assigned and then saved. The optimizer may raise instead of returning.
OptimizeMaximum(use_cache, h) ==
    \/ \E result \in MaxResults :
        /\ self' = [self EXCEPT
                !.has = @ \cup {"maximum_hash", "maximum_result",
                                "maximum_flux", "maximum_fluxerr"},
                !.maximum_hash = h,
                !.maximum_result = result,
                !.maximum_flux = result.maximum_flux,
                !.maximum_fluxerr = result.maximum_fluxerr]
        /\ cache' = save_stan_result(cache, h, result)
        /\ last_call' = Call("maximum", use_cache, LoadStatus(use_cache, cache, h),
                           "ok", FALSE, TRUE, TRUE)
    \/ /\ self' = [self EXCEPT !.has = @ \cup {"maximum_hash"},
                               !.maximum_hash = h]
       /\ last_call' = Call("maximum", use_cache, LoadStatus(use_cache, cache, h),
                           "OptimizerError", FALSE, TRUE, FALSE)
       /\ UNCHANGED cache

\* Lines 225-344
model_maximum_spectra(use_cache) ==
    LET h == maximum_hash(settings)
        cache_result == IF use_cache THEN load_stan_result(cache, h) ELSE None
    IN  /\ IF CacheHit(use_cache, cache_result)
           THEN AdoptMaximum(use_cache, h, cache_result)
           ELSE IF IsOdd(settings.maximum_num_phase_coefficients)
                THEN RaiseOddCoefficients(use_cache, h)
                ELSE OptimizeMaximum(use_cache, h)
        /\ returned_ok' = IF last_call'.outcome = "ok"
                          THEN returned_ok \cup {"maximum"} ELSE returned_ok
        /\ UNCHANGED <<settings, other_settings, analysis_no, subset, train_mask>>
        /\ trace' = NoTrace
        /\ calls_left # 0
        /\ calls_left' = Spend(calls_left)
        /\ UNCHANGED <<env, oosVars, ctorVars>>

-----------------------------------------------------------------------------
(* read_between_the_lines(use_cache) and _parse_rbtl_result(result)        *)

\* Line 429: mags[~train_mask] = np.nan
Blind(mags, tm) == [i \in DOMAIN mags |-> IF ~tm[i] THEN NaN ELSE mags[i]]

\* Elementwise a / b of two arrays over targets.
ElemDiv(a, b) == [i \in DOMAIN a |-> a[i] \div b[i]]

\* Lines 418-434, applied to the object obj: the object afterwards and how the
\* call ended. rbtl_mags is the magnitudes array of the result object itself,
\* so the overwrite of line 429 shows in rbtl_result too. The division of line
\* 433 reads self.maximum_flux and raises AttributeError when the maximum-light
\* stage has not assigned it.
parse_rbtl_result(obj, result) ==
    LET mags == IF settings.blinded
                THEN Blind(result.magnitudes, train_mask)
                ELSE result.magnitudes
        parsed == [obj EXCEPT
            !.has = @ \cup {"rbtl_result", "rbtl_colors", "rbtl_mags", "mean_flux"},
            !.rbtl_result = [result EXCEPT !.magnitudes = mags],
            !.rbtl_colors = result.colors,
            !.rbtl_mags = mags,
            !.mean_flux = result.mean_flux]
    IN  IF "maximum_flux" \in obj.has
        THEN [obj |-> [parsed EXCEPT
                    !.has = @ \cup {"scale_flux", "scale_fluxerr"},
                    !.scale_flux = ElemDiv(obj.maximum_flux, result.model_scales),
                    !.scale_fluxerr = ElemDiv(obj.maximum_fluxerr, result.model_scales)],
              outcome |-> "ok"]
        ELSE [obj |-> parsed, outcome |-> "AttributeError"]

\* Lines 374-380: the cached result is parsed and the call returns.
AdoptRbtl(use_cache, h, hashed, cache_result) ==
    IF cache_result = None
    THEN \* self.rbtl_result = None, then None["colors"] raises
         /\ self' = [hashed EXCEPT !.has = @ \cup {"rbtl_result"},
                                   !.rbtl_result = NoRbtlResult]
         /\ last_call' = Call("rbtl", use_cache, LoadStatus(use_cache, cache, h),
                              "TypeError", TRUE, FALSE, FALSE)
         /\ UNCHANGED cache
    ELSE LET p == parse_rbtl_result(hashed, CHOOSE x \in cache_result : TRUE)
         IN  /\ self' = p.obj
             /\ last_call' = Call("rbtl", use_cache, LoadStatus(use_cache, cache, h),
                                  p.outcome, TRUE, FALSE, FALSE)
             /\ UNCHANGED cache

\* np.zeros(n)
np_zeros(n) == [i \in 1..n |-> 0]

RECURSIVE ArrSum(_)
ArrSum(arr) == IF arr = <<>> THEN 0 ELSE Head(arr) + ArrSum(Tail(arr))

StanInitAllFree(obj, num_targets) ==
    [mean_flux             |-> ArrSum(obj.maximum_flux) \div Len(obj.maximum_flux),
     fractional_dispersion |-> 10,
     colors_raw            |-> np_zeros(num_targets),
     magnitudes_raw        |-> np_zeros(num_targets)]

\* Lines 387-398: the start values the optimizer asks for. mean_flux is the
\* mean of maximum_flux over the targets, fractional_dispersion is 0.1, here
\* in units of 0.01.
stan_init(obj, num_targets) ==
    [mean_flux             |-> ArrSum(obj.maximum_flux) \div Len(obj.maximum_flux),
     fractional_dispersion |-> 10,
     colors_raw            |-> np_zeros(num_targets - 1),
     magnitudes_raw        |-> np_zeros(num_targets - 1)]

\* Lines 400-406: the data handed to the optimizer. The color law and the
\* wavelength count do not depend on the targets and are left out.
stan_data(obj, num_targets) ==
    [num_targets     |-> num_targets,
     maximum_flux    |-> obj.maximum_flux,
     maximum_fluxerr |-> obj.maximum_fluxerr]

OptimizeRbtlKeepsEntry(use_cache, h, hashed) ==
    \/ \E result \in RbtlResults :
        LET p == parse_rbtl_result(hashed, result)
        IN  /\ cache' = IF h \in DOMAIN cache THEN cache
                        ELSE save_stan_result(cache, h, result)
            /\ self' = p.obj
            /\ last_call' = Call("rbtl", use_cache, LoadStatus(use_cache, cache, h),
                                 p.outcome, FALSE, TRUE, TRUE)
    \/ /\ self' = hashed
       /\ last_call' = Call("rbtl", use_cache, LoadStatus(use_cache, cache, h),
                            "OptimizerError", FALSE, TRUE, FALSE)
       /\ UNCHANGED cache

\* Lines 408-416: the optimizer runs, its result is saved and then parsed. The
\* optimizer may raise instead of returning.
OptimizeRbtl(use_cache, h, hashed) ==
    \/ \E result \in RbtlResults :
        LET p == parse_rbtl_result(hashed, result)
        IN  /\ cache' = save_stan_result(cache, h, result)
            /\ self' = p.obj
            /\ last_call' = Call("rbtl", use_cache, LoadStatus(use_cache, cache, h),
                                 p.outcome, FALSE, TRUE, TRUE)
    \/ /\ self' = hashed
       /\ last_call' = Call("rbtl", use_cache, LoadStatus(use_cache, cache, h),
                            "OptimizerError", FALSE, TRUE, FALSE)
       /\ UNCHANGED cache

\* Lines 346-416
read_between_the_lines(use_cache) ==
    /\ IF "maximum_hash" \notin self.has
       THEN \* line 368 reads self.maximum_hash
            /\ self' = [self EXCEPT !.has = @ \cup {"rbtl_color_law"}]
            /\ last_call' = Call("rbtl", use_cache, "none", "AttributeError",
                                 FALSE, FALSE, FALSE)
            /\ UNCHANGED cache
       ELSE LET h == rbtl_hash(self.maximum_hash, settings)
                cache_result ==
                    IF use_cache THEN load_stan_result(cache, h) ELSE None
                hashed == [self EXCEPT
                    !.has = @ \cup {"rbtl_color_law", "rbtl_hash"},
                    !.rbtl_hash = h]
            IN  IF CacheHit(use_cache, cache_result)
                THEN AdoptRbtl(use_cache, h, hashed, cache_result)
                ELSE IF "maximum_flux" \notin self.has
                THEN \* lines 400-404: the data bundle reads self.maximum_flux
                     /\ self' = hashed
                     /\ last_call' = Call("rbtl", use_cache,
                            LoadStatus(use_cache, cache, h), "AttributeError",
                            FALSE, FALSE, FALSE)
                     /\ UNCHANGED cache
                ELSE OptimizeRbtl(use_cache, h, hashed)
    /\ returned_ok' = IF last_call'.outcome = "ok"
                      THEN returned_ok \cup {"rbtl"} ELSE returned_ok
    /\ UNCHANGED <<settings, other_settings, analysis_no, subset, train_mask>>
    /\ trace' = IF last_call'.optimized
                THEN \* lines 382-409: num_targets is len(self.targets)
                     [init |-> stan_init(self, NumTargets),
                      data |-> stan_data(self, NumTargets)]
                ELSE NoTrace
    /\ calls_left # 0
    /\ calls_left' = Spend(calls_left)
    /\ UNCHANGED <<env, oosVars, ctorVars>>

-----------------------------------------------------------------------------
(* The states an analysis starts in.                                       *)

BaseSettings ==
    [idr |-> S(<<"A">>), phase_range |-> 1, bin_velocity |-> 1,
     bin_min_wavelength |-> 1, bin_max_wavelength |-> 1,
     s2n_cut_min_wavelength |-> 1, s2n_cut_max_wavelength |-> 1,
     s2n_cut_threshold |-> 1, maximum_num_phase_coefficients |-> 2,
     rbtl_fiducial_rv |-> 3, blinded |-> FALSE,
     mask_uncertainty_fraction |-> 200, isomap_num_neighbors |-> 1,
     isomap_num_components |-> 1]

\* What the cache can hold under a key when the analysis starts: nothing, an
\* unreadable file, or a result stored by an earlier run.
EntryOptions(results) ==
    {{}} \cup {{CorruptEntry}} \cup {{GoodEntry(r, 0)} : r \in results}

InitialCache(st, me, re) ==
    LET km == maximum_hash(st)
        kr == rbtl_hash(km, st)
    IN  [h \in {km : e \in me} \cup {kr : e \in re} |->
            IF h = km THEN CHOOSE e \in me : TRUE ELSE CHOOSE e \in re : TRUE]

PipeInit ==
    /\ \E n \in 1..MaxCoef, b \in BOOLEAN :
        settings = [BaseSettings EXCEPT !.maximum_num_phase_coefficients = n,
                                        !.blinded = b]
    /\ other_settings = settings
    /\ analysis_no = 1
    /\ subset \in [Targets -> Subsets]
    /\ train_mask = TrainMaskOf(subset)
    /\ self = FreshSelf
    /\ \E me \in EntryOptions(MaxResults), re \in EntryOptions(RbtlResults) :
        cache = InitialCache(settings, me, re)
    /\ last_call = NoCall
    /\ returned_ok = {}

PipeIdle ==
    /\ settings = BaseSettings
    /\ other_settings = BaseSettings
    /\ analysis_no = 1
    /\ subset = ConstArr("training")
    /\ train_mask = TrainMaskOf(subset)
    /\ self = FreshSelf
    /\ cache = <<>>
    /\ last_call = NoCall
    /\ returned_ok = {}

PipeNext ==
    \/ \E use_cache \in BOOLEAN : model_maximum_spectra(use_cache)
    \/ \E use_cache \in BOOLEAN : read_between_the_lines(use_cache)

OosIdle ==
    /\ gp_in = [x |-> <<>>, y |-> <<>>, yerr |-> <<>>, color |-> <<>>,
                condition_mask |-> NoneArg, groups |-> NoneArg,
                return_var |-> FALSE]
    /\ gp_idx = 1
    /\ cond_preds = <<>>
    /\ cond_vars = <<>>
    /\ gp_calls = 0
    /\ gp_out = [all_preds |-> <<>>, all_vars |-> <<>>]
    /\ gp_pc = "idle"

-----------------------------------------------------------------------------
(* Two analyses whose settings differ in one parameter of the hash         *)
(* formula, run one after the other against a cache that starts empty.     *)

HashParams ==
    {"idr", "phase_range", "bin_velocity", "bin_min_wavelength",
     "bin_max_wavelength", "s2n_cut_min_wavelength", "s2n_cut_max_wavelength",
     "s2n_cut_threshold", "maximum_num_phase_coefficients"}

ValuesOf(param) ==
    IF param = "idr" THEN IdrValues
    ELSE IF param = "maximum_num_phase_coefficients" THEN 1..MaxCoef
    ELSE SettingValues

\* The settings of the first analysis: the numeric parameters of the dataset
\* hash start out equal and one parameter is then changed for the second.
AllSettings ==
    {[idr |-> i, phase_range |-> v, bin_velocity |-> v,
      bin_min_wavelength |-> v, bin_max_wavelength |-> v,
      s2n_cut_min_wavelength |-> v, s2n_cut_max_wavelength |-> v,
      s2n_cut_threshold |-> v, maximum_num_phase_coefficients |-> n,
      rbtl_fiducial_rv |-> 3, blinded |-> FALSE] :
        i \in IdrValues, v \in SettingValues, n \in 1..MaxCoef}

HashInit ==
    /\ settings \in AllSettings
    /\ \E p \in HashParams : \E v \in ValuesOf(p) \ {settings[p]} :
        other_settings = [settings EXCEPT ![p] = v]
    /\ analysis_no = 1
    /\ subset = ConstArr("training")
    /\ train_mask = TrainMaskOf(subset)
    /\ self = FreshSelf
    /\ cache = <<>>
    /\ last_call = NoCall
    /\ returned_ok = {}

\* Lines 24-157: the second analysis object is constructed, with its own
\* settings; the cache on disk stays as the first analysis left it.
NewAnalysis ==
    /\ analysis_no = 1
    /\ analysis_no' = 2
    /\ settings' = other_settings
    /\ other_settings' = settings
    /\ train_mask' = TrainMaskOf(subset)
    /\ self' = FreshSelf
    /\ last_call' = NoCall
    /\ returned_ok' = {}
    /\ UNCHANGED <<subset, cache>>
    /\ UNCHANGED <<oosVars, ctorVars, stageVars>>

HashNext ==
    \/ \E use_cache \in BOOLEAN : model_maximum_spectra(use_cache)
    \/ NewAnalysis

-----------------------------------------------------------------------------
(* Two analyses whose settings differ in one parameter, which may or may   *)
(* not enter a cache key, run one after the other through both cached      *)
(* stages against a cache that starts empty.                               *)

\* Parameters that enter neither hash formula.
NonKeyParams ==
    {"blinded", "mask_uncertainty_fraction", "isomap_num_neighbors",
     "isomap_num_components"}

ChainParams ==
    {"bin_velocity", "maximum_num_phase_coefficients", "rbtl_fiducial_rv"}
        \cup NonKeyParams

ChainValuesOf(param) ==
    IF param = "blinded" THEN BOOLEAN
    ELSE IF param = "maximum_num_phase_coefficients" THEN 1..MaxCoef
    ELSE IF param = "rbtl_fiducial_rv" THEN {2, 3}
    ELSE IF param = "mask_uncertainty_fraction" THEN {100, 200}
    ELSE IF param \in {"isomap_num_neighbors", "isomap_num_components"} THEN {1, 2}
    ELSE SettingValues

ChainInit ==
    /\ \E b \in BOOLEAN : settings = [BaseSettings EXCEPT !.blinded = b]
    /\ \E p \in ChainParams : \E v \in ChainValuesOf(p) \ {settings[p]} :
        other_settings = [settings EXCEPT ![p] = v]
    /\ analysis_no = 1
    /\ subset = [i \in Targets |-> IF i = 1 THEN "validation" ELSE "training"]
    /\ train_mask = TrainMaskOf(subset)
    /\ self = FreshSelf
    /\ cache = <<>>
    /\ last_call = NoCall
    /\ returned_ok = {}

ChainNext ==
    \/ \E use_cache \in BOOLEAN : model_maximum_spectra(use_cache)
    \/ \E use_cache \in BOOLEAN : read_between_the_lines(use_cache)
    \/ NewAnalysis

-----------------------------------------------------------------------------
(* __init__: the loop over dataset.targets (lines 46-97) and the           *)
(* assignments that follow it. A target is what the loop reads of it: the  *)
(* number of its spectra, the uncertainty of its time of peak, and the     *)
(* spectra that get_spectra_in_range returns, each with its phase and its  *)
(* signal-to-noise. A target is named by its place in dataset.targets.     *)

\* Line 55
MinSpectra == 5

\* Line 68
DaymaxErrLimit == 1

Phases == {-2, -1, 1}

\* A spectrum that passes the signal-to-noise cut at each phase, and one that
\* does not.
SpectrumOptions ==
    {[phase |-> p, s2n |-> BaseSettings.s2n_cut_threshold] : p \in Phases}
        \cup {[phase |-> 1, s2n |-> BaseSettings.s2n_cut_threshold - 1]}

SeqsUpTo(options, n) == UNION {[1..k -> options] : k \in 0..n}

\* The targets a dataset can hold. The spectra in range matter only for a
\* target that passes both cuts.
Supernovae ==
    {[num_spectra |-> MinSpectra - 1, daymax_err |-> DaymaxErrLimit,
      range_spectra |-> <<>>],
     [num_spectra |-> MinSpectra, daymax_err |-> DaymaxErrLimit + 1,
      range_spectra |-> <<>>]}
    \cup {[num_spectra |-> MinSpectra, daymax_err |-> DaymaxErrLimit,
           range_spectra |-> rs] : rs \in SeqsUpTo(SpectrumOptions, MaxRange)}

CheckSpectrumNoCut(spectrum) == TRUE

\* Lines 160-183
check_spectrum(spectrum) == ~(spectrum.s2n < settings.s2n_cut_threshold)

Abs(v) == IF v < 0 THEN -v ELSE v

ArgMinSigned(phases) ==
    CHOOSE i \in DOMAIN phases :
        /\ \A j \in DOMAIN phases : phases[i] <= phases[j]
        /\ \A j \in 1..(i - 1) : phases[j] > phases[i]

\* np.argmin(np.abs(used_phases)): the first index of the least absolute
\* phase.
ArgMinAbs(phases) ==
    CHOOSE i \in DOMAIN phases :
        /\ \A j \in DOMAIN phases : Abs(phases[i]) <= Abs(phases[j])
        /\ \A j \in 1..(i - 1) : Abs(phases[j]) > Abs(phases[i])

\* Lines 82-88: the spectra of the range that pass the check, in order.
RECURSIVE Usable(_)
Usable(range_spectra) ==
    IF range_spectra = <<>> THEN <<>>
    ELSE IF check_spectrum(Head(range_spectra))
         THEN <<Head(range_spectra)>> \o Usable(Tail(range_spectra))
         ELSE Usable(Tail(range_spectra))

CtorInit ==
    /\ ctor_pc = "loop"
    /\ ds_seen = <<>>
    /\ all_raw_spec = <<>>
    /\ center_mask = <<>>
    /\ attrition = [enough_spectra |-> 0, salt_daymax |-> 0, range |-> 0,
                    usable |-> 0]
    /\ marked_unusable = {}

CtorIdle ==
    /\ ctor_pc = "idle"
    /\ ds_seen = <<>>
    /\ all_raw_spec = <<>>
    /\ center_mask = <<>>
    /\ attrition = [enough_spectra |-> 0, salt_daymax |-> 0, range |-> 0,
                    usable |-> 0]
    /\ marked_unusable = {}

\* Lines 54-97: one iteration of the loop, for the next target of the dataset.
ProcessTarget ==
    /\ ctor_pc = "loop"
    /\ Len(ds_seen) < MaxDataset
    /\ \E supernova \in Supernovae :
        LET t == Len(ds_seen) + 1
            range_spectra == supernova.range_spectra
            used == Usable(range_spectra)
            used_phases == [k \in DOMAIN used |-> used[k].phase]
        IN  /\ ds_seen' = Append(ds_seen, supernova)
            /\ IF supernova.num_spectra < MinSpectra
               THEN UNCHANGED <<all_raw_spec, center_mask, attrition,
                                marked_unusable>>
               ELSE IF supernova.daymax_err > DaymaxErrLimit
               THEN /\ attrition' = [attrition EXCEPT !.enough_spectra = @ + 1]
                    /\ UNCHANGED <<all_raw_spec, center_mask, marked_unusable>>
               ELSE /\ attrition' = [attrition EXCEPT
                            !.enough_spectra = @ + 1,
                            !.salt_daymax = @ + 1,
                            !.range = IF Len(range_spectra) > 0 THEN @ + 1 ELSE @,
                            !.usable = IF Len(used_phases) > 0 THEN @ + 1 ELSE @]
                    /\ all_raw_spec' = all_raw_spec \o
                            [k \in DOMAIN used |->
                                [target |-> t, phase |-> used[k].phase]]
                    /\ marked_unusable' = marked_unusable \cup
                            {<<t, k>> : k \in {j \in DOMAIN range_spectra :
                                ~check_spectrum(range_spectra[j])}}
                    /\ center_mask' =
                        IF Len(used_phases) > 0
                        THEN center_mask \o
                            [k \in DOMAIN used_phases |->
                                k = ArgMinAbs(used_phases)]
                        ELSE center_mask
    /\ ctor_pc' = "loop"
    /\ UNCHANGED <<oosVars, pipeVars, stageVars>>

\* Lines 99-122: the spectra are binned and the arrays of the working sample
\* assigned. Line 115 reads all_spec[0] and raises IndexError when no spectrum
\* was kept.
CtorFinish ==
    /\ ctor_pc = "loop"
    /\ ctor_pc' = IF all_raw_spec = <<>> THEN "IndexError" ELSE "done"
    /\ UNCHANGED <<ds_seen, all_raw_spec, center_mask, attrition, marked_unusable>>
    /\ UNCHANGED <<oosVars, pipeVars, stageVars>>

CtorNext == ProcessTarget \/ CtorFinish

-----------------------------------------------------------------------------
(* What the later stages read that no stage assigns: the attributes the    *)
(* constructor sets from the metadata. Redshifts are in units of 0.001.     *)

\* Line 468: redshift_errs < 0.004
RedshiftErrLimit == 4

\* Line 469: helio_redshifts > 0.02
HelioRedshiftMin == 20

\* The attributes __init__ assigns (lines 115-157): every object has them.
CtorAttributes ==
    {"wave", "flux", "fluxerr", "raw_spectra", "spectra", "center_mask",
     "helio_redshifts", "redshifts", "redshift_errs", "targets", "target_map",
     "salt_fits", "salt_x1", "salt_colors", "salt_phases", "train_mask",
     "dataset_hash", "settings"}

\* The names bound in the module's namespace (lines 1-23): a bare name that
\* is not among them and is no local variable raises NameError when read.
ModuleGlobals ==
    {"Table", "md5", "Dataset", "math", "plt", "Axes3D", "minimize", "Isomap",
     "extinction", "np", "os", "sys", "tqdm", "default_settings", "utils",
     "specind", "ManifoldTwinsException", "ManifoldTwinsAnalysis"}

\* The first target has a small redshift uncertainty and a large enough
\* redshift; the others a redshift below the limit.
Metadata ==
    [redshift_errs |-> [i \in Targets |-> IF i = 1 THEN 1 ELSE 4],
     helio_redshifts |-> [i \in Targets |-> IF i = 1 THEN 50 ELSE 20],
     redshifts |-> [i \in Targets |-> IF i = 1 THEN 50 ELSE 20],
     salt_colors |-> ConstArr(1)]

\* A call of a stage that has no use_cache argument and no cache access; the
\* call before is recorded by the cached stages only.
PlainCall(op, outcome) ==
    [Call(op, FALSE, "none", outcome, FALSE, FALSE, FALSE) EXCEPT !.prev = NoBrief]

Returned(op) ==
    IF last_call'.outcome = "ok" THEN returned_ok \cup {op} ELSE returned_ok

-----------------------------------------------------------------------------
(* build_masks()                                                           *)

\* The entries of an array as a set.
Entries(arr) == {arr[i] : i \in DOMAIN arr}

\* arr in increasing order.
SortedArr(arr) ==
    CHOOSE s \in [DOMAIN arr -> Entries(arr)] :
        /\ \A i \in DOMAIN arr : \A j \in DOMAIN arr : i <= j => s[i] <= s[j]
        /\ \A v \in Entries(arr) :
            Cardinality({i \in DOMAIN arr : s[i] = v})
                = Cardinality({i \in DOMAIN arr : arr[i] = v})

\* Twice np.median(arr): the middle entry counted twice, or the sum of the
\* two middle entries.
MedianTwice(arr) ==
    LET s == SortedArr(arr)
        n == Len(arr)
    IN  IF n % 2 = 1 THEN 2 * s[(n + 1) \div 2]
        ELSE s[n \div 2] + s[(n \div 2) + 1]

\* Lines 444-456, for spectra of one wavelength bin. utils.frac_to_mag scales
\* its argument by a constant, which cancels in the ratio of the two powers:
\* the fraction of target i is (fluxerr[i] / flux[i])^2 / dispersion^2, and it
\* is compared with mask_uncertainty_fraction, which is in units of 0.01.
UncertaintyMask(obj) ==
    [i \in Targets |->
        100 * obj.maximum_fluxerr[i] * obj.maximum_fluxerr[i]
            < settings.mask_uncertainty_fraction
                * obj.rbtl_result.fractional_dispersion
                * obj.rbtl_result.fractional_dispersion
                * obj.maximum_flux[i] * obj.maximum_flux[i]]

\* Lines 467-471: rbtl_colors - median < 0.5 is compared doubled.
RedshiftColorMask(obj) ==
    [i \in Targets |->
        /\ env.redshift_errs[i] < RedshiftErrLimit
        /\ env.helio_redshifts[i] > HelioRedshiftMin
        /\ 2 * obj.rbtl_colors[i] - MedianTwice(obj.rbtl_colors) < 1]

\* Lines 436-471. The first attribute read that the object lacks raises
\* AttributeError before anything is assigned.
build_masks ==
    /\ IF /\ "rbtl_result" \in self.has
          /\ "maximum_fluxerr" \in self.has
          /\ "maximum_flux" \in self.has
       THEN /\ self' = [self EXCEPT
                    !.has = @ \cup {"maximum_uncertainty_fraction",
                                    "uncertainty_mask", "redshift_color_mask"},
                    !.uncertainty_mask = UncertaintyMask(self),
                    !.redshift_color_mask = RedshiftColorMask(self)]
            /\ last_call' = PlainCall("build_masks", "ok")
       ELSE /\ self' = self
            /\ last_call' = PlainCall("build_masks", "AttributeError")
    /\ returned_ok' = Returned("build_masks")
    /\ trace' = NoTrace
    /\ calls_left # 0
    /\ calls_left' = Spend(calls_left)
    /\ UNCHANGED <<settings, other_settings, analysis_no, subset, train_mask,
                   cache, env>>
    /\ UNCHANGED <<oosVars, ctorVars>>

-----------------------------------------------------------------------------
(* generate_embedding()                                                    *)

\* The entry utils.fill_mask puts where the mask is False: not-a-number, which
\* is no row of a transform and no magnitude the analysis computes.
Missing == [row |-> 0, given |-> <<>>]

\* utils.fill_mask(values, mask): an array with one entry per mask entry, that
\* holds values[k] at the k-th True position of the mask and the missing
\* marker elsewhere.
fill_mask(values, mask) ==
    MaskAssign([i \in 1..Len(mask) |-> Missing], mask, values)

\* Isomap.fit_transform(rows): the manifold transform is an external library;
\* a row it returns is represented by its number and the rows it was given.
fit_transform(rows) == [k \in 1..Len(rows) |-> [row |-> k, given |-> rows]]

IsomapDiffsUnshifted(obj) ==
    [i \in DOMAIN obj.scale_flux |-> obj.scale_flux[i] \div obj.mean_flux]

\* Line 481: scale_flux / mean_flux - 1
IsomapDiffs(obj) ==
    [i \in DOMAIN obj.scale_flux |-> (obj.scale_flux[i] \div obj.mean_flux) - 1]

\* Lines 473-485. The transform may raise instead of returning.
generate_embedding ==
    /\ IF "uncertainty_mask" \notin self.has
          \/ "scale_flux" \notin self.has
          \/ "mean_flux" \notin self.has
       THEN /\ self' = [self EXCEPT !.has = @ \cup {"isomap"}]
            /\ last_call' = PlainCall("generate_embedding", "AttributeError")
       ELSE LET mask == self.uncertainty_mask
                diffs == IsomapDiffs(self)
                withDiffs == [self EXCEPT
                    !.has = @ \cup {"isomap", "isomap_diffs"},
                    !.isomap_diffs = diffs]
            IN  \/ /\ self' = [withDiffs EXCEPT
                        !.has = @ \cup {"embedding"},
                        !.embedding =
                            fill_mask(fit_transform(BoolIndex(diffs, mask)), mask)]
                   /\ last_call' = PlainCall("generate_embedding", "ok")
                \/ /\ self' = withDiffs
                   /\ last_call' = PlainCall("generate_embedding", "ValueError")
    /\ returned_ok' = Returned("generate_embedding")
    /\ trace' = NoTrace
    /\ calls_left # 0
    /\ calls_left' = Spend(calls_left)
    /\ UNCHANGED <<settings, other_settings, analysis_no, subset, train_mask,
                   cache, env>>
    /\ UNCHANGED <<oosVars, ctorVars>>

-----------------------------------------------------------------------------
(* get_mags(kind, full, peculiar_velocity)                                 *)

Kinds == {"rbtl", "salt", "salt_raw", "twins"}

PeculiarVelocities == {0, 300}

IsSaltKindOrOther(kind) == kind # "rbtl"

\* Line 686
IsSaltKind(kind) == kind = "salt" \/ kind = "salt_raw"

\* Lines 679-695 and 699-704: the attributes the call looks up, in order.
MagAttributes(kind, full) ==
    IF kind = "rbtl"
    THEN <<"rbtl_mags", "rbtl_colors",
           IF full THEN "mag_mask" ELSE "good_mag_mask", "interp_mask",
           "redshifts", "embedding">>
    ELSE <<IF kind = "salt" THEN "salt_hr" ELSE "salt_hr_raw", "salt_colors",
           IF full THEN "salt_mask" ELSE "good_salt_mask", "interp_mask",
           "redshifts", "embedding">>

\* a & b of two boolean arrays.
AndMask(a, b) == [i \in DOMAIN a |-> a[i] /\ b[i]]

\* Lines 668-676, in units in which the constant factor is 1.
get_peculiar_velocity_uncertainty(peculiar_velocity) ==
    [i \in Targets |-> peculiar_velocity \div env.redshifts[i]]

\* Lines 678-706: how the call ends, the attributes it looked up, and what it
\* returns. Looking up an attribute the object lacks raises AttributeError.
get_mags(obj, kind, full, peculiar_velocity) ==
    IF kind # "rbtl" /\ ~IsSaltKind(kind)
    THEN [outcome |-> "ManifoldTwinsException", reads |-> {},
          embedding |-> <<>>, mags |-> <<>>, colors |-> <<>>,
          pec_vel |-> <<>>, mask |-> <<>>]
    ELSE LET attrs == MagAttributes(kind, full)
             held == obj.has \cup CtorAttributes
             lacking == {k \in DOMAIN attrs : attrs[k] \notin held}
         IN  IF lacking # {}
             THEN LET first == CHOOSE k \in lacking : \A j \in lacking : k <= j
                  IN  [outcome |-> "AttributeError",
                       reads |-> {attrs[j] : j \in 1..first},
                       embedding |-> <<>>, mags |-> <<>>, colors |-> <<>>,
                       pec_vel |-> <<>>, mask |-> <<>>]
             ELSE LET mags == IF kind = "rbtl" THEN obj.rbtl_mags
                              ELSE IF kind = "salt" THEN obj.salt_hr
                              ELSE obj.salt_hr_raw
                      colors == IF kind = "rbtl" THEN obj.rbtl_colors
                                ELSE env.salt_colors
                      first_mask ==
                          IF kind = "rbtl"
                          THEN IF full THEN obj.mag_mask ELSE obj.good_mag_mask
                          ELSE IF full THEN obj.salt_mask ELSE obj.good_salt_mask
                      mask == AndMask(first_mask, obj.interp_mask)
                      pec == get_peculiar_velocity_uncertainty(peculiar_velocity)
                  IN  [outcome |-> "ok",
                       reads |-> {attrs[j] : j \in DOMAIN attrs},
                       embedding |-> BoolIndex(obj.embedding, mask),
                       mags |-> BoolIndex(mags, mask),
                       colors |-> BoolIndex(colors, mask),
                       pec_vel |-> BoolIndex(pec, mask),
                       mask |-> mask]

\* A call of get_mags from outside the class.
GetMags ==
    /\ \E kind \in Kinds, full \in BOOLEAN, pv \in PeculiarVelocities :
        LET g == get_mags(self, kind, full, pv)
        IN  /\ last_call' = PlainCall("get_mags", g.outcome)
            /\ trace' = [NoTrace EXCEPT !.kind = kind, !.reads = g.reads]
    /\ calls_left # 0
    /\ calls_left' = Spend(calls_left)
    /\ UNCHANGED <<settings, other_settings, analysis_no, subset, train_mask,
                   self, cache, returned_ok, env>>
    /\ UNCHANGED <<oosVars, ctorVars>>

-----------------------------------------------------------------------------
(* _build_gp and the out-of-sample prediction as the GP stages call it.    *)

\* Lines 511-532: the indices of the hyperparameter vector that are read.
BuildGpReads(phase) == {0, 1, 2, 3} \cup (IF phase THEN {4} ELSE {})

\* Reading vector[k] raises IndexError unless k < len(vector).
BuildGpRaises(hyperparameters, phase) ==
    \E k \in BuildGpReads(phase) : k >= Len(hyperparameters)

\* Lines 571-666 with groups=None, as one step: the array all_preds.
predict_gp_oos(x, y, yerr, color, condition_mask) ==
    LET cx == CondOf(x, condition_mask)
        cy == CondOf(y, condition_mask)
        cyerr == CondOf(yerr, condition_mask)
        ccolor == CondOf(color, condition_mask)
        preds == [k \in 1..Len(cx) |->
            predict_gp("mean", cx[k], ccolor[k], NpDelete(cx, k),
                       NpDelete(cy, k), NpDelete(cyerr, k), NpDelete(ccolor, k))]
    IN  IF ~condition_mask.given THEN preds
        ELSE LET mask == condition_mask.val
                 other_pred == predict_gp_many("mean",
                     BoolIndex(x, NotMask(mask)), BoolIndex(color, NotMask(mask)),
                     cx, cy, cyerr, ccolor)
             IN  MaskAssign(MaskAssign(Zeros(Len(x)), mask, preds),
                            NotMask(mask), other_pred)

\* Whether the call above builds a GP at all: once per row of the
\* conditioning subset, and once more when a condition_mask is given.
OosBuildsGp(num_cond, mask_given) == num_cond >= 1 \/ mask_given

\* A corrected magnitude: the magnitude and the prediction subtracted.
Residuals(mags, preds) ==
    [k \in DOMAIN mags |-> [mag |-> mags[k], minus |-> preds[k]]]

\* What scipy's minimize can return as res.x: a vector as long as the one it
\* was started from.
MinimizerResults(start) ==
    {start, [i \in DOMAIN start |-> start[i] + 1]}

-----------------------------------------------------------------------------
(* fit_gp(kind)                                                            *)

\* Line 725: [0.0, 0.05, 0.2, 5], in units of 0.01.
FitGpStart == <<0, 5, 20, 500>>

\* Lines 745-801 of fit_gp, from the second get_mags call on; obj has
\* gp_hyperparameters assigned, and scene_model tells whether the import of
\* line 766 finds the module.
FitGpPredict(obj, kind, good, scene_model) ==
    LET full == get_mags(obj, kind, TRUE, 300)
        condition_mask == SomeArg(BoolIndex(good.mask, full.mask))
    IN  IF full.outcome # "ok"
        THEN /\ self' = obj
             /\ last_call' = PlainCall("fit_gp", full.outcome)
             /\ trace' = [NoTrace EXCEPT !.kind = kind, !.start = FitGpStart,
                          !.minimized = TRUE, !.scene_model = scene_model,
                          !.warned = FALSE, !.reads = full.reads]
        ELSE IF BuildGpRaises(obj.gp_hyperparameters, FALSE)
        THEN /\ self' = obj
             /\ last_call' = PlainCall("fit_gp", "IndexError")
             /\ trace' = [NoTrace EXCEPT !.kind = kind, !.start = FitGpStart,
                          !.minimized = TRUE, !.scene_model = scene_model,
                          !.warned = FALSE, !.reads = full.reads]
        ELSE IF "fill_mask" \notin ModuleGlobals
        THEN \* line 759
             /\ self' = obj
             /\ last_call' = PlainCall("fit_gp", "NameError")
             /\ trace' = [NoTrace EXCEPT !.kind = kind, !.start = FitGpStart,
                          !.minimized = TRUE, !.scene_model = scene_model,
                          !.warned = FALSE, !.reads = full.reads]
        ELSE LET preds == predict_gp_oos(full.embedding, full.mags,
                              full.pec_vel, full.colors, condition_mask)
                 corrected == [obj EXCEPT
                     !.has = @ \cup {"corr_mags", "corr_vars"},
                     !.corr_mags = fill_mask(Residuals(full.mags, preds), full.mask),
                     !.corr_vars = fill_mask(Residuals(full.pec_vel, preds), full.mask)]
             IN  /\ self' = IF scene_model
                            THEN [corrected EXCEPT
                                !.has = @ \cup {"gp_hyperparameter_covariance"},
                                !.gp_hyperparameter_covariance =
                                    <<"cov", obj.gp_hyperparameters>>]
                            ELSE corrected
                 /\ last_call' = PlainCall("fit_gp", "ok")
                 /\ trace' = [NoTrace EXCEPT !.kind = kind, !.start = FitGpStart,
                          !.minimized = TRUE, !.scene_model = scene_model,
                          !.warned = ~scene_model, !.reads = full.reads]

\* Lines 724-801. minimize evaluates the objective at the start vector first,
\* and may raise instead of returning.
fit_gp ==
    /\ \E kind \in {"rbtl", "salt"}, scene_model \in BOOLEAN :
        LET good == get_mags(self, kind, FALSE, 300)
        IN  IF good.outcome # "ok"
            THEN /\ self' = self
                 /\ last_call' = PlainCall("fit_gp", good.outcome)
                 /\ trace' = [NoTrace EXCEPT !.kind = kind, !.scene_model = scene_model,
                                             !.reads = good.reads]
            ELSE IF BuildGpRaises(FitGpStart, FALSE)
            THEN /\ self' = self
                 /\ last_call' = PlainCall("fit_gp", "IndexError")
                 /\ trace' = [NoTrace EXCEPT !.kind = kind, !.start = FitGpStart,
                          !.minimized = TRUE, !.scene_model = scene_model,
                          !.warned = FALSE, !.reads = good.reads]
            ELSE \/ \E x \in MinimizerResults(FitGpStart) :
                        FitGpPredict([self EXCEPT
                            !.has = @ \cup {"gp_hyperparameters"},
                            !.gp_hyperparameters = x], kind, good, scene_model)
                 \/ /\ self' = self
                    /\ last_call' = PlainCall("fit_gp", "OptimizerError")
                    /\ trace' = [NoTrace EXCEPT !.kind = kind, !.start = FitGpStart,
                          !.minimized = TRUE, !.scene_model = scene_model,
                          !.warned = FALSE, !.reads = good.reads]
    /\ returned_ok' = Returned("fit_gp")
    /\ calls_left # 0
    /\ calls_left' = Spend(calls_left)
    /\ UNCHANGED <<settings, other_settings, analysis_no, subset, train_mask,
                   cache, env>>
    /\ UNCHANGED <<oosVars, ctorVars>>

-----------------------------------------------------------------------------
(* apply_gp_standardization(hyperparameters, phase, kind)                  *)

\* Line 819: [0.1, 0.3, 5], in units of 0.01.
ApplyGpStart == <<10, 30, 500>>

\* The hyperparameters argument: None, or a vector of four or five entries.
HyperparameterArgs ==
    {NoneArg, SomeArg(<<0, 5, 20, 500>>), SomeArg(<<0, 5, 20, 500, 100>>)}

\* Lines 826-845, from the get_mags calls on; obj has gp_hyperparameters
\* assigned and tr is what the call has recorded so far.
ApplyGpPredict(obj, kind, phase, tr) ==
    LET good == get_mags(obj, kind, FALSE, 300)
        full == get_mags(obj, kind, TRUE, 300)
        condition_mask == SomeArg(BoolIndex(good.mask, full.mask))
    IN  IF good.outcome # "ok" \/ full.outcome # "ok"
        THEN /\ self' = obj
             /\ last_call' = PlainCall("apply_gp_standardization",
                    IF good.outcome # "ok" THEN good.outcome ELSE full.outcome)
             /\ trace' = [tr EXCEPT !.reads = good.reads \cup full.reads]
        ELSE IF BuildGpRaises(obj.gp_hyperparameters, phase)
        THEN /\ self' = obj
             /\ last_call' = PlainCall("apply_gp_standardization", "IndexError")
             /\ trace' = [tr EXCEPT !.reads = good.reads \cup full.reads]
        ELSE IF "fill_mask" \notin ModuleGlobals
        THEN \* line 841
             /\ self' = obj
             /\ last_call' = PlainCall("apply_gp_standardization", "NameError")
             /\ trace' = [tr EXCEPT !.reads = good.reads \cup full.reads]
        ELSE LET preds == predict_gp_oos(full.embedding, full.mags,
                              full.pec_vel, full.colors, condition_mask)
             IN  /\ self' = [obj EXCEPT
                        !.has = @ \cup {"corr_mags"},
                        !.corr_mags = fill_mask(Residuals(full.mags, preds), full.mask)]
                 /\ last_call' = PlainCall("apply_gp_standardization", "ok")
                 /\ trace' = [tr EXCEPT !.reads = good.reads \cup full.reads]

\* Lines 803-845. With hyperparameters=None the objective that minimize
\* evaluates at the start vector calls get_mags and then _predict_gp_oos
\* without a condition_mask, which builds a GP from the vector once per
\* selected target.
apply_gp_standardization ==
    /\ \E hyperparameters \in HyperparameterArgs, phase \in BOOLEAN,
          kind \in {"rbtl", "salt", "twins"} :
        LET tr == [NoTrace EXCEPT !.kind = kind, !.phase = phase]
            started == [tr EXCEPT !.start = ApplyGpStart, !.minimized = TRUE]
        IN  IF hyperparameters.given
            THEN ApplyGpPredict([self EXCEPT
                    !.has = @ \cup {"gp_hyperparameters"},
                    !.gp_hyperparameters = hyperparameters.val], kind, phase, tr)
            ELSE LET use == get_mags(self, kind, FALSE, 300)
                 IN  IF use.outcome # "ok"
                     THEN /\ self' = self
                          /\ last_call' = PlainCall("apply_gp_standardization",
                                                    use.outcome)
                          /\ trace' = [started EXCEPT !.reads = use.reads]
                     ELSE IF /\ OosBuildsGp(Len(use.mags), FALSE)
                             /\ BuildGpRaises(ApplyGpStart, phase)
                     THEN /\ self' = self
                          /\ last_call' = PlainCall("apply_gp_standardization",
                                                    "IndexError")
                          /\ trace' = [started EXCEPT !.reads = use.reads]
                     ELSE \/ \E x \in MinimizerResults(ApplyGpStart) :
                                ApplyGpPredict([self EXCEPT
                                    !.has = @ \cup {"gp_hyperparameters"},
                                    !.gp_hyperparameters = x], kind, phase, started)
                          \/ /\ self' = self
                             /\ last_call' = PlainCall("apply_gp_standardization",
                                                       "OptimizerError")
                             /\ trace' = [started EXCEPT !.reads = use.reads]
    /\ returned_ok' = Returned("apply_gp_standardization")
    /\ calls_left # 0
    /\ calls_left' = Spend(calls_left)
    /\ UNCHANGED <<settings, other_settings, analysis_no, subset, train_mask,
                   cache, env>>
    /\ UNCHANGED <<oosVars, ctorVars>>

-----------------------------------------------------------------------------
(* One analysis object on which every stage can be called, in any order.   *)

\* mag_mask, good_mag_mask and interp_mask are assigned by no method of the
\* class: an object has them only if the calling script assigned them.
CallerMasks ==
    [mag_mask |-> ConstArr(TRUE), good_mag_mask |-> [i \in Targets |-> i # 1],
     interp_mask |-> ConstArr(TRUE)]

WithCallerMasks ==
    [FreshSelf EXCEPT
        !.has = @ \cup {"mag_mask", "good_mag_mask", "interp_mask"},
        !.mag_mask = CallerMasks.mag_mask,
        !.good_mag_mask = CallerMasks.good_mag_mask,
        !.interp_mask = CallerMasks.interp_mask]

StageIdle ==
    /\ env = Metadata
    /\ trace = NoTrace
    /\ calls_left = NoLimit

StagesInit ==
    /\ settings = BaseSettings
    /\ other_settings = settings
    /\ analysis_no = 1
    /\ subset = ConstArr("training")
    /\ train_mask = TrainMaskOf(subset)
    /\ self \in {FreshSelf, WithCallerMasks}
    /\ \E re \in {{}, {GoodEntry(CHOOSE r \in RbtlResults : TRUE, 0)}} :
        cache = InitialCache(settings, {}, re)
    /\ last_call = NoCall
    /\ returned_ok = {}
    /\ env = Metadata
    /\ trace = NoTrace
    /\ calls_left = MaxCalls

StagesNext ==
    \/ \E use_cache \in BOOLEAN : model_maximum_spectra(use_cache)
    \/ \E use_cache \in BOOLEAN : read_between_the_lines(use_cache)
    \/ build_masks
    \/ generate_embedding
    \/ GetMags
    \/ fit_gp
    \/ apply_gp_standardization

-----------------------------------------------------------------------------
(* The masks get_mags combines: calculate_salt_hubble_residuals (lines     *)
(* 1282-1386) and get_mags on an analysis whose stages have returned.      *)

MaskArrays == [Targets -> BOOLEAN]

\* What the calling script may have assigned to an attribute that no method
\* assigns: nothing (the attribute does not exist) or any boolean array.
CallerAssigned == {<<>>} \cup MaskArrays

\* An analysis after generate_embedding, with redshift_color_mask as
\* build_masks left it and mag_mask, good_mag_mask and interp_mask as the
\* calling script left them.
AfterEmbedding(rc, mm, gm, im) ==
    [FreshSelf EXCEPT
        !.has = {"maximum_flux", "maximum_fluxerr", "rbtl_result", "rbtl_mags",
                 "rbtl_colors", "scale_flux", "uncertainty_mask",
                 "redshift_color_mask", "embedding"}
                \cup (IF mm = <<>> THEN {} ELSE {"mag_mask"})
                \cup (IF gm = <<>> THEN {} ELSE {"good_mag_mask"})
                \cup (IF im = <<>> THEN {} ELSE {"interp_mask"}),
        !.rbtl_mags = ConstArr(1),
        !.rbtl_colors = ConstArr(1),
        !.uncertainty_mask = ConstArr(TRUE),
        !.redshift_color_mask = rc,
        !.embedding = [i \in Targets |-> [row |-> i, given |-> <<>>]],
        !.mag_mask = mm,
        !.good_mag_mask = gm,
        !.interp_mask = im]

\* Lines 1285-1287: idr.subset of each target is training or validation.
SaltMask(sub) == [i \in DOMAIN sub |-> sub[i] \in {"training", "validation"}]

\* Lines 1282-1386. The masks are assigned before the fit; the fit minimizes
\* with scipy and may raise; the residuals it ends with are any values.
calculate_salt_hubble_residuals ==
    /\ LET salt_mask == SaltMask(subset)
           masked == [self EXCEPT !.has = @ \cup {"salt_mask"},
                                  !.salt_mask = salt_mask]
       IN  IF "redshift_color_mask" \notin self.has
           THEN \* line 1292
                /\ self' = masked
                /\ last_call' = PlainCall("calculate_salt_hubble_residuals",
                                          "AttributeError")
           ELSE LET good == [masked EXCEPT
                        !.has = @ \cup {"good_salt_mask"},
                        !.good_salt_mask =
                            AndMask(salt_mask, self.redshift_color_mask)]
                IN  \/ /\ self' = good
                       /\ last_call' = PlainCall("calculate_salt_hubble_residuals",
                                                 "OptimizerError")
                    \/ \E hr \in MagValues :
                       /\ self' = [good EXCEPT
                                !.has = @ \cup {"salt_hr", "salt_hr_raw"},
                                !.salt_hr = ConstArr(hr),
                                !.salt_hr_raw = ConstArr(0)]
                       /\ last_call' = PlainCall("calculate_salt_hubble_residuals",
                                                 "ok")
    /\ returned_ok' = Returned("calculate_salt_hubble_residuals")
    /\ trace' = NoTrace
    /\ UNCHANGED <<settings, other_settings, analysis_no, subset, train_mask,
                   cache, env, calls_left>>
    /\ UNCHANGED <<oosVars, ctorVars>>

MasksInit ==
    /\ settings = BaseSettings
    /\ other_settings = BaseSettings
    /\ analysis_no = 1
    /\ subset \in {ConstArr("training"),
                  [i \in Targets |-> IF i = 1 THEN "other" ELSE "validation"]}
    /\ train_mask = TrainMaskOf(subset)
    /\ \E rc \in MaskArrays, mm \in CallerAssigned, gm \in CallerAssigned,
          im \in CallerAssigned :
            self = AfterEmbedding(rc, mm, gm, im)
    /\ cache = <<>>
    /\ last_call = NoCall
    /\ returned_ok = {"maximum", "rbtl", "build_masks", "generate_embedding"}
    /\ env = Metadata
    /\ trace = NoTrace
    /\ calls_left = NoLimit

MasksNext == calculate_salt_hubble_residuals \/ GetMags

-----------------------------------------------------------------------------
(* read_meta (lines 185-219) on the working sample the constructor built.  *)

\* The number of spectra of the working sample.
MaxSpectra == 3

\* The keys a metadata record may hold; read_meta is called with one of them.
MetaKeys == {"host.zcmb"}

\* The target a spectrum of the sample belongs to: the first target has every
\* spectrum the others leave over, each other target has one.
TargetOf(i) ==
    IF i <= MaxSpectra - NumTargets + 1 THEN 1 ELSE i - (MaxSpectra - NumTargets)

\* A metadata record (a dict) that holds value under the keys of present.
MetaRecord(present, value) == [k \in present |-> value]

\* The samples read_meta is run on: every spectrum's and every target's
\* record holds the key or not; spectra of one target share the target
\* object; center_mask flags one spectrum of each target (lines 92-97).
Samples ==
    { [spectra |-> [i \in 1..MaxSpectra |->
                      [meta   |-> MetaRecord(sp[i], [from |-> "spectrum", index |-> i]),
                       target |-> [name |-> TargetOf(i),
                                   meta |-> MetaRecord(tg[TargetOf(i)],
                                        [from |-> "target", index |-> TargetOf(i)])]]],
       center_mask |-> [i \in 1..MaxSpectra |-> i = c \/ TargetOf(i) # 1]] :
        sp \in [1..MaxSpectra -> SUBSET MetaKeys],
        tg \in [Targets -> SUBSET MetaKeys],
        c \in {i \in 1..MaxSpectra : TargetOf(i) = 1} }

\* Lines 208-216: the loop over use_spectra. It appends the value of each
\* spectrum in turn and stops at the first record that lacks the key.
CollectMeta(use_spectra, key, read_spectrum) ==
    LET Rec(k) == IF read_spectrum THEN use_spectra[k].meta
                                   ELSE use_spectra[k].target.meta
        lacking == {k \in 1..Len(use_spectra) : key \notin DOMAIN Rec(k)}
        stop == IF lacking = {} THEN Len(use_spectra) + 1
                ELSE CHOOSE k \in lacking : \A l \in lacking : k <= l
    IN  [outcome |-> IF lacking = {} THEN "ok" ELSE "KeyError",
         res     |-> [k \in 1..(stop - 1) |-> Rec(k)[key]]]

\* Lines 197-219. The choice between the spectrum's record and the target's is
\* made once, from the first spectrum of the sample.
read_meta(sample, key, center_only) ==
    LET first == sample.spectra[1]
        use_spectra == IF center_only
                       THEN BoolIndex(sample.spectra, sample.center_mask)
                       ELSE sample.spectra
    IN  IF key \in DOMAIN first.meta
        THEN CollectMeta(use_spectra, key, TRUE)
        ELSE IF key \in DOMAIN first.target.meta
        THEN CollectMeta(use_spectra, key, FALSE)
        ELSE [outcome |-> "KeyError", res |-> <<>>]

\* A call of read_meta: trace records the arguments and what the loop had
\* collected when the call ended.
ReadMeta ==
    /\ \E key \in MetaKeys, center_only \in BOOLEAN :
        LET r == read_meta(env, key, center_only)
        IN  /\ last_call' = PlainCall("read_meta", r.outcome)
            /\ trace' = [key |-> key, center_only |-> center_only, res |-> r.res]
    /\ UNCHANGED <<settings, other_settings, analysis_no, subset, train_mask,
                   self, cache, returned_ok, env, calls_left>>
    /\ UNCHANGED <<oosVars, ctorVars>>

MetaInit ==
    /\ env \in Samples
    /\ trace = [key |-> "", center_only |-> FALSE, res |-> <<>>]
    /\ calls_left = NoLimit

MetaNext == ReadMeta

-----------------------------------------------------------------------------
(* The phase_coefficients matrix of model_maximum_spectra (lines 281-302), *)
(* one row at a time. Phases and phase_range are whole numbers of one      *)
(* unit; a weight w stands for the number w / (2 * phase_range), so that   *)
(* the weight 1 of the code is 2 * phase_range here.                       *)

\* The largest num_phase_coefficients / 2 and the largest phase_range tried.
MaxHalfCoef == 3

MaxPhaseRange == 6

EvenCoefficients == {2 * k : k \in 1..MaxHalfCoef}

\* Lines 284-286: num_phase_coefficients / 2 * phase / phase_range, in absolute
\* value, times 2 * phase_range.
PhaseScale(n, phase, range) == n * Abs(phase)

\* Line 288: int(np.floor(phase_scale))
FullBins(n, phase, range) == PhaseScale(n, phase, range) \div (2 * range)

\* Line 289: phase_scale - full_bins
Remainder(n, phase, range) == PhaseScale(n, phase, range) % (2 * range)

\* Lines 297-300, with the mirrored bin computed as for the positive side.
PhaseBinUnmirrored(n, phase, j) == n \div 2 + j

\* Lines 297-300: the column written in iteration j.
PhaseBin(n, phase, j) ==
    IF phase > 0 THEN n \div 2 + j ELSE n \div 2 - 1 - j

\* Lines 291-302: the writes of the inner loop for one spectrum, in order,
\* each with the column index as the code computes it.
RowWrites(n, phase, range) ==
    LET full_bins == FullBins(n, phase, range)
    IN  [k \in 1..(full_bins + 1) |->
            [index  |-> PhaseBin(n, phase, k - 1),
             weight |-> IF k - 1 = full_bins
                        THEN Remainder(n, phase, range)
                        ELSE 2 * range]]

\* row[index] = ... on an array of n entries: an index from -n to -1 counts
\* from the end, an index outside -n .. n-1 raises IndexError.
IndexInBounds(n, index) == -n <= index /\ index < n

Column(n, index) == IF index < 0 THEN n + index ELSE index

\* Lines 281-302 for one spectrum: the row (columns 0 .. n-1 at places
\* 1 .. n), the writes made and how the loop ended.
phase_coefficients(n, phase, range) ==
    LET writes == RowWrites(n, phase, range)
        bad == {k \in DOMAIN writes : ~IndexInBounds(n, writes[k].index)}
        stop == IF bad = {} THEN Len(writes) + 1
                ELSE CHOOSE k \in bad : \A l \in bad : k <= l
        Hits(c) == {k \in 1..(stop - 1) : Column(n, writes[k].index) = c}
    IN  [outcome |-> IF bad = {} THEN "ok" ELSE "IndexError",
         writes  |-> SubSeq(writes, 1, IF bad = {} THEN Len(writes) ELSE stop),
         row     |-> [c \in 1..n |->
                        IF Hits(c - 1) = {} THEN 0
                        ELSE writes[CHOOSE k \in Hits(c - 1) :
                                        \A l \in Hits(c - 1) : l <= k].weight]]

\* The row of one spectrum is built: env holds num_phase_coefficients,
\* phase_range and the phase of the spectrum, trace what the loop did.
BuildPhaseRow ==
    /\ trace = NoTrace
    /\ LET r == phase_coefficients(env.num_phase_coefficients, env.phase,
                                   env.phase_range)
       IN  /\ trace' = [writes |-> r.writes, row |-> r.row]
           /\ last_call' = PlainCall("phase_coefficients", r.outcome)
    /\ UNCHANGED <<settings, other_settings, analysis_no, subset, train_mask,
                   self, cache, returned_ok, env, calls_left>>
    /\ UNCHANGED <<oosVars, ctorVars>>

\* num_phase_coefficients is even (line 273) and the spectrum is one that
\* get_spectra_in_range(-phase_range, phase_range) returned (lines 76-78).
PhaseInit ==
    /\ \E n \in EvenCoefficients, range \in 1..MaxPhaseRange :
        \E phase \in (-range)..range :
            env = [num_phase_coefficients |-> n, phase_range |-> range,
                   phase |-> phase]
    /\ trace = NoTrace
    /\ calls_left = NoLimit

PhaseNext == BuildPhaseRow

-----------------------------------------------------------------------------
(* __init__, lines 124-144: the per-target attributes. A target has a name *)
(* that orders it among the targets; env.names[t] is the name of the       *)
(* target at place t of dataset.targets.                                   *)

\* The orders in which a dataset can list targets named 1 .. MaxDataset.
TargetOrders ==
    {names \in [1..MaxDataset -> 1..MaxDataset] :
        \A i, j \in 1..MaxDataset : names[i] = names[j] => i = j}

\* np.unique(arr): the distinct entries of arr in increasing order.
np_unique(arr) ==
    CHOOSE s \in [1..Cardinality(Entries(arr)) -> Entries(arr)] :
        \A i, j \in DOMAIN s : i < j => s[i] < s[j]

\* list.index(value): the first place of value.
index(list, value) ==
    CHOOSE i \in DOMAIN list :
        list[i] = value /\ \A j \in 1..(i - 1) : list[j] # value

\* Lines 124-144, when lines 99-122 went through: read_meta takes the
\* redshifts from the spectra that center_mask flags, in the order of the
\* working sample; targets is the sorted list of the targets of the spectra
\* and target_map the place of each spectrum's target in it. trace records,
\* for each array, the name of the target each entry was taken from.
AssignTargets ==
    /\ ctor_pc = "done"
    /\ ctor_pc' = "assigned"
    /\ LET spectrum_targets ==
               [i \in DOMAIN all_raw_spec |-> env.names[all_raw_spec[i].target]]
           targets == np_unique(spectrum_targets)
       IN  trace' = [targets    |-> targets,
                     target_map |-> [i \in DOMAIN spectrum_targets |->
                                        index(targets, spectrum_targets[i])],
                     redshifts  |-> BoolIndex(spectrum_targets, center_mask),
                     salt_x1    |-> targets,
                     train_mask |-> targets]
    /\ UNCHANGED <<ds_seen, all_raw_spec, center_mask, attrition, marked_unusable>>
    /\ UNCHANGED <<oosVars, pipeVars, env, calls_left>>

AlignInit ==
    /\ \E names \in TargetOrders : env = [names |-> names]
    /\ trace = NoTrace
    /\ calls_left = NoLimit

AlignNext == ProcessTarget \/ CtorFinish \/ AssignTargets

-----------------------------------------------------------------------------
(* The specifications.                                                     *)

InitOos == OosInit /\ PipeIdle /\ CtorIdle /\ StageIdle

SpecOos == InitOos /\ [][OosNext]_vars

Init == PipeInit /\ OosIdle /\ CtorIdle /\ StageIdle

Spec == Init /\ [][PipeNext]_vars

InitHash == HashInit /\ OosIdle /\ CtorIdle /\ StageIdle

SpecHash == InitHash /\ [][HashNext]_vars

InitCtor == CtorInit /\ PipeIdle /\ OosIdle /\ StageIdle

SpecInit == InitCtor /\ [][CtorNext]_vars

InitStages == StagesInit /\ OosIdle /\ CtorIdle

SpecStages == InitStages /\ [][StagesNext]_vars


InitMeta == MetaInit /\ PipeIdle /\ OosIdle /\ CtorIdle

SpecMeta == InitMeta /\ [][MetaNext]_vars

InitChain == ChainInit /\ OosIdle /\ CtorIdle /\ StageIdle

SpecChain == InitChain /\ [][ChainNext]_vars

InitPhase == PhaseInit /\ PipeIdle /\ OosIdle /\ CtorIdle

SpecPhase == InitPhase /\ [][PhaseNext]_vars

InitAlign == CtorInit /\ AlignInit /\ PipeIdle /\ OosIdle

SpecAlign == InitAlign /\ [][AlignNext]_vars

InitMasks == MasksInit /\ OosIdle /\ CtorIdle

SpecMasks == InitMasks /\ [][MasksNext]_vars
-----------------------------------------------------------------------------
(* Properties of _predict_gp_oos.                                          *)

\* The input rows that form the conditioning subset.
CondPositions ==
    IF gp_in.condition_mask.given
    THEN {i \in 1..Len(gp_in.x) : gp_in.condition_mask.val[i]}
    ELSE 1..Len(gp_in.x)

\* The input row that is the k-th row of the conditioning subset.
KthCond(k) ==
    CHOOSE i \in CondPositions :
        Cardinality({j \in CondPositions : j < i}) = k - 1

SeqSet(s) == {s[i] : i \in DOMAIN s}

\* Prediction p is the prediction at input row i, made from exactly the
\* conditioning rows outside `dropped`, each taken once, in all four arrays.
PredictedWithout(p, i, dropped) ==
    /\ p.at = i
    /\ p.color = i
    /\ \A arr \in {p.cond_x, p.cond_y, p.cond_yerr, p.cond_color} :
        /\ SeqSet(arr) = CondPositions \ dropped
        /\ Len(arr) = Cardinality(CondPositions \ dropped)

\* C1: without group labels, the prediction made for the k-th row of the
\* conditioning subset is conditioned on exactly the subset minus that row (in
\* x, y, yerr and color alike), the loop never fails, and when the call is done
\* every row of the subset has its prediction.
C1_LeaveOneOut ==
    ~gp_in.groups.given =>
        /\ gp_pc # "IndexError"
        /\ \A k \in 1..Len(cond_preds) :
            PredictedWithout(cond_preds[k], KthCond(k), {KthCond(k)})
        /\ gp_pc = "done" => Len(cond_preds) = Cardinality(CondPositions)

C1_Witness ==
    /\ gp_pc = "done"
    /\ ~gp_in.groups.given
    /\ Len(cond_preds) >= 2

\* The rows of the conditioning subset that carry the group label of row i.
SameGroup(i) ==
    {j \in CondPositions : gp_in.groups.val[j] = gp_in.groups.val[i]}

\* C2: with group labels, with or without a condition mask, the rows removed
\* before predicting the k-th row of the conditioning subset are exactly the
\* subset rows that carry its label, and every row of the subset is predicted.
C2_LeaveGroupOut ==
    gp_in.groups.given =>
        /\ gp_pc # "IndexError"
        /\ \A k \in 1..Len(cond_preds) :
            PredictedWithout(cond_preds[k], KthCond(k), SameGroup(KthCond(k)))
        /\ gp_pc = "done" => Len(cond_preds) = Cardinality(CondPositions)

\* The part of C2 the code satisfies: the same, when no condition mask is
\* given or the mask selects every row.
C2_LeaveGroupOutUnmasked ==
    (gp_in.groups.given /\ CondPositions = 1..Len(gp_in.x)) =>
        /\ gp_pc # "IndexError"
        /\ \A k \in 1..Len(cond_preds) :
            PredictedWithout(cond_preds[k], KthCond(k), SameGroup(KthCond(k)))
        /\ gp_pc = "done" => Len(cond_preds) = Cardinality(CondPositions)

\* C3: with a condition mask, the returned array has one entry per input row,
\* at the row's own index: a row outside the subset holds a prediction made
\* from the whole subset, a row inside holds its leave-out prediction, and the
\* rows outside were predicted by one single call.
C3_MaskedAssembly ==
    (gp_pc = "done" /\ gp_in.condition_mask.given) =>
        /\ Len(gp_out.all_preds) = Len(gp_in.x)
        /\ gp_calls = Cardinality(CondPositions) + 1
        /\ \A i \in 1..Len(gp_in.x) :
            IF i \in CondPositions
            THEN /\ \E k \in 1..Len(cond_preds) :
                        /\ KthCond(k) = i
                        /\ gp_out.all_preds[i] = cond_preds[k]
                 /\ ~gp_in.groups.given =>
                        PredictedWithout(gp_out.all_preds[i], i, {i})
            ELSE PredictedWithout(gp_out.all_preds[i], i, {})

C3_Witness ==
    /\ gp_pc = "done"
    /\ gp_in.condition_mask.given
    /\ ~gp_in.groups.given
    /\ Cardinality(CondPositions) >= 2
    /\ Cardinality(CondPositions) < Len(gp_in.x)

-----------------------------------------------------------------------------
(* Properties of the cached stages.                                        *)

\* C4: with blinded set, once read_between_the_lines has returned (after a
\* fresh optimization or after a cache hit) every validation target has NaN as
\* its magnitude in rbtl_mags and in rbtl_result, and every other target has
\* the magnitude the stored result holds for it.
C4_ValidationBlinded ==
    (settings.blinded /\ last_call.op = "rbtl" /\ last_call.outcome = "ok") =>
        \A t \in Targets :
            IF subset[t] = "validation"
            THEN /\ self.rbtl_mags[t] = NaN
                 /\ self.rbtl_result.magnitudes[t] = NaN
            ELSE /\ self.rbtl_mags[t] = cache[self.rbtl_hash].result.magnitudes[t]
                 /\ self.rbtl_mags[t] # NaN

C4_Witness ==
    /\ settings.blinded
    /\ last_call.op = "rbtl"
    /\ last_call.outcome = "ok"
    /\ last_call.hit
    /\ \E t \in Targets : subset[t] = "validation"
    /\ \E t \in Targets : subset[t] = "other"

\* C5: with blinded set, whatever read_between_the_lines saves to the cache
\* already has NaN as the magnitude of every validation target: the overwrite
\* comes before the save.
C5_BlindedBeforeSave ==
    (settings.blinded /\ last_call.op = "rbtl" /\ last_call.saved) =>
        \A t \in Targets :
            subset[t] = "validation" =>
                cache[self.rbtl_hash].result.magnitudes[t] = NaN

\* C6: a call of model_maximum_spectra with use_cache that directly follows a
\* call with use_cache that returned leaves maximum_flux and maximum_fluxerr
\* as they were, does not invoke the optimizer, does not write the cache, and
\* adopts the stored entry as it is.
C6_SecondCallReusesCache ==
    [][ ( /\ last_call.op = "maximum"
          /\ last_call.use_cache
          /\ last_call.outcome = "ok"
          /\ last_call'.op = "maximum"
          /\ last_call'.use_cache
          /\ analysis_no' = analysis_no )
        => ( /\ last_call'.outcome = "ok"
             /\ last_call'.hit
             /\ ~last_call'.optimized
             /\ ~last_call'.saved
             /\ cache' = cache
             /\ self'.maximum_flux = self.maximum_flux
             /\ self'.maximum_fluxerr = self.maximum_fluxerr
             /\ self'.maximum_result = cache[self.maximum_hash].result ) ]_vars

C6_Witness ==
    /\ last_call.op = "maximum"
    /\ last_call.use_cache
    /\ last_call.hit
    /\ last_call.outcome = "ok"
    /\ last_call.load = "found"
    /\ last_call.prev.op = "maximum"
    /\ last_call.prev.use_cache
    /\ last_call.prev.outcome = "ok"

\* The one parameter in which the two analyses differ is p.
DifferOnlyIn(p) ==
    /\ settings[p] # other_settings[p]
    /\ \A q \in HashParams \ {p} : settings[q] = other_settings[q]

\* C7 as stated: the two analyses differ in one parameter of the hash formula,
\* so their dataset_hash differ, their maximum_hash differ, and the second
\* analysis never adopts an entry that the first one wrote.
C7_BothHashesDiffer ==
    /\ dataset_hash(settings) # dataset_hash(other_settings)
    /\ maximum_hash(settings) # maximum_hash(other_settings)
    /\ (analysis_no = 2 /\ last_call.hit) => cache[self.maximum_hash].by = 2

\* C7 as amended: the string hashed for the maximum-light key differs and so
\* does maximum_hash; dataset_hash differs too unless the parameter changed is
\* maximum_num_phase_coefficients, which enters maximum_hash only; and the
\* second analysis never adopts an entry that the first one wrote.
C7_CacheKeyDiffers ==
    /\ MaximumHashInfo(settings) # MaximumHashInfo(other_settings)
    /\ maximum_hash(settings) # maximum_hash(other_settings)
    /\ ~DifferOnlyIn("maximum_num_phase_coefficients") =>
            /\ DatasetHashInfo(settings) # DatasetHashInfo(other_settings)
            /\ dataset_hash(settings) # dataset_hash(other_settings)
    /\ DifferOnlyIn("maximum_num_phase_coefficients") =>
            dataset_hash(settings) = dataset_hash(other_settings)
    /\ (analysis_no = 2 /\ last_call.load = "found") =>
            cache[self.maximum_hash].by = 2

C7_Witness ==
    /\ analysis_no = 2
    /\ last_call.op = "maximum"
    /\ last_call.use_cache
    /\ last_call.load = "missing"
    /\ maximum_hash(other_settings) \in DOMAIN cache
    /\ DifferOnlyIn("bin_velocity")

\* C8: with an odd maximum_num_phase_coefficients every call of
\* model_maximum_spectra ends in the configuration error, whatever use_cache
\* and the cache are, and nothing has been adopted, computed or saved.
C8_OddAlwaysRaises ==
    (last_call.op = "maximum" /\ IsOdd(settings.maximum_num_phase_coefficients)) =>
        /\ last_call.outcome = "ConfigError"
        /\ ~last_call.hit
        /\ ~last_call.optimized
        /\ ~last_call.saved
        /\ "maximum_flux" \notin self.has

\* The part of C8 the code satisfies: the same, when the cache read is skipped
\* or finds no result.
C8_OddRaisesWithoutHit ==
    ( /\ last_call.op = "maximum"
      /\ IsOdd(settings.maximum_num_phase_coefficients)
      /\ last_call.load # "found" ) =>
        /\ last_call.outcome = "ConfigError"
        /\ ~last_call.hit
        /\ ~last_call.optimized
        /\ ~last_call.saved

StageHash(call, obj) ==
    IF call.op = "maximum" THEN obj.maximum_hash ELSE obj.rbtl_hash

\* The result attributes of a cached stage, with whether the object has them.
ResultAttributes(op, obj) ==
    IF op = "maximum"
    THEN <<obj.has \cap {"maximum_flux", "maximum_fluxerr"},
           obj.maximum_flux, obj.maximum_fluxerr>>
    ELSE <<obj.has \cap {"rbtl_mags", "rbtl_colors", "scale_flux"},
           obj.rbtl_mags, obj.rbtl_colors, obj.scale_flux>>

\* C11: a call of a cached stage whose optimizer returned a result writes
\* exactly one cache entry, under the stage's hash, that holds this result,
\* and leaves every other entry as it was; any other call (a cache hit, or one
\* that raised) leaves the cache as it was; and when the optimizer raised, the
\* stage's result attributes are what they were before the call.
C11_WriteOncePerResult ==
    [][ last_call'.op \in {"maximum", "rbtl"} =>
        LET h == StageHash(last_call', self')
        IN  /\ (last_call'.optimized /\ last_call'.outcome = "ok") =>
                /\ last_call'.saved
                /\ DOMAIN cache' = DOMAIN cache \cup {h}
                /\ cache'[h].ok
                /\ \A k \in DOMAIN cache \ {h} : cache'[k] = cache[k]
                /\ IF last_call'.op = "maximum"
                   THEN cache'[h].result = self'.maximum_result
                   ELSE cache'[h].result.colors = self'.rbtl_colors
            /\ ~(last_call'.optimized /\ last_call'.outcome = "ok") =>
                /\ ~last_call'.saved
                /\ cache' = cache
            /\ last_call'.hit => cache' = cache
            /\ last_call'.outcome = "OptimizerError" =>
                ResultAttributes(last_call'.op, self')
                    = ResultAttributes(last_call'.op, self) ]_vars

C11_Witness ==
    /\ last_call.op = "rbtl"
    /\ last_call.outcome = "OptimizerError"
    /\ last_call.optimized
    /\ ~last_call.saved
    /\ "scale_flux" \in self.has
    /\ self.rbtl_hash \in DOMAIN cache

ChainedKey(st) == rbtl_hash(maximum_hash(st), st)

\* C20: the dereddening keys of two analyses are equal exactly when their
\* maximum_hash and their rbtl_fiducial_rv are (so a change of blinded or of a
\* mask or embedding setting leaves the key as it is); the rbtl_hash an analysis
\* computes is that key whatever use_cache is; and a call that finds a result
\* under the key runs no optimizer, leaves the cache as it is and ends with
\* the attributes and the outcome that parsing this result gives.
C20_ChainedKey ==
    [][ /\ (ChainedKey(settings') = ChainedKey(other_settings'))
            <=> ( /\ maximum_hash(settings') = maximum_hash(other_settings')
                  /\ settings'.rbtl_fiducial_rv = other_settings'.rbtl_fiducial_rv )
        /\ \A p \in NonKeyParams :
            (settings'[p] # other_settings'[p]) =>
                ChainedKey(settings') = ChainedKey(other_settings')
        /\ "rbtl_hash" \in self'.has => self'.rbtl_hash = ChainedKey(settings')
        /\ (last_call'.op = "rbtl" /\ last_call'.hit) =>
            LET h == self'.rbtl_hash
                hashed == [self EXCEPT
                    !.has = @ \cup {"rbtl_color_law", "rbtl_hash"},
                    !.rbtl_hash = h]
            IN  /\ ~last_call'.optimized
                /\ ~last_call'.saved
                /\ cache' = cache
                /\ h \in DOMAIN cache
                /\ cache[h].ok
                /\ self' = parse_rbtl_result(hashed, cache[h].result).obj
                /\ last_call'.outcome =
                        parse_rbtl_result(hashed, cache[h].result).outcome
      ]_vars

\* The second analysis differs from the first in blinded only and adopts the
\* dereddening result that the first one stored.
C20_Witness ==
    /\ analysis_no = 2
    /\ settings.blinded # other_settings.blinded
    /\ last_call.op = "rbtl"
    /\ last_call.use_cache
    /\ last_call.hit
    /\ last_call.outcome = "ok"
    /\ cache[self.rbtl_hash].by = 1
    /\ self.rbtl_mags # cache[self.rbtl_hash].result.magnitudes

\* C26: when read_between_the_lines runs the optimizer, the start values hold
\* num_targets - 1 raw magnitudes and num_targets - 1 raw colors, all zero,
\* and the data hold num_targets and the maximum_flux and maximum_fluxerr of
\* the analysis, with one row for each of the num_targets targets.
C26_OneTargetFixed ==
    (last_call.op = "rbtl" /\ last_call.optimized) =>
        /\ trace.init.magnitudes_raw = [i \in 1..(NumTargets - 1) |-> 0]
        /\ trace.init.colors_raw = [i \in 1..(NumTargets - 1) |-> 0]
        /\ trace.data.num_targets = NumTargets
        /\ trace.data.maximum_flux = self.maximum_flux
        /\ trace.data.maximum_fluxerr = self.maximum_fluxerr
        /\ DOMAIN trace.data.maximum_flux = Targets
        /\ DOMAIN trace.data.maximum_fluxerr = Targets

C26_Witness ==
    /\ last_call.op = "rbtl"
    /\ last_call.optimized
    /\ last_call.outcome = "ok"
    /\ Len(trace.init.magnitudes_raw) = NumTargets - 1
    /\ Len(trace.data.maximum_flux) = NumTargets

-----------------------------------------------------------------------------
(* Properties of the constructor.                                          *)

\* The places in all_raw_spec of the spectra of target t.
SpectraOf(t) == {i \in DOMAIN all_raw_spec : all_raw_spec[i].target = t}

\* Target t passed the cut on the number of spectra and the cut on the
\* uncertainty of the time of peak.
PassedCuts(t) ==
    /\ ds_seen[t].num_spectra >= MinSpectra
    /\ ds_seen[t].daymax_err <= DaymaxErrLimit

\* The spectra of target t in range whose signal-to-noise is not below the
\* threshold.
GoodInRange(t) ==
    {k \in DOMAIN ds_seen[t].range_spectra :
        ds_seen[t].range_spectra[k].s2n >= settings.s2n_cut_threshold}

\* C9: center_mask has one entry per spectrum of the working sample; a target
\* that passed the cuts and has a spectrum in range with enough signal has
\* exactly one of its spectra flagged, one of least absolute phase among them;
\* any other target has no spectrum, hence no entry, in the working sample.
C9_OneCenterPerTarget ==
    /\ Len(center_mask) = Len(all_raw_spec)
    /\ \A t \in DOMAIN ds_seen :
        IF PassedCuts(t) /\ GoodInRange(t) # {}
        THEN /\ Cardinality(SpectraOf(t)) = Cardinality(GoodInRange(t))
             /\ Cardinality({i \in SpectraOf(t) : center_mask[i]}) = 1
             /\ \A i \in SpectraOf(t) :
                    center_mask[i] =>
                        \A j \in SpectraOf(t) :
                            Abs(all_raw_spec[i].phase) <= Abs(all_raw_spec[j].phase)
        ELSE SpectraOf(t) = {}

C9_Witness ==
    /\ ctor_pc = "done"
    /\ Len(ds_seen) = 2
    /\ PassedCuts(1) /\ Cardinality(GoodInRange(1)) = 2
    /\ all_raw_spec[1].phase = -2
    /\ all_raw_spec[2].phase = 1
    /\ ~center_mask[1] /\ center_mask[2]
    /\ SpectraOf(2) = {}


\* The targets seen so far that satisfy P.
NumSeen(P(_)) == Cardinality({t \in DOMAIN ds_seen : P(t)})

EnoughSpectra(t) == ds_seen[t].num_spectra >= MinSpectra

HasRange(t) == PassedCuts(t) /\ Len(ds_seen[t].range_spectra) > 0

HasUsable(t) == PassedCuts(t) /\ GoodInRange(t) # {}

\* C21: a target with fewer than 5 spectra or with a time-of-peak uncertainty
\* above 1 has no spectrum in the working sample; a spectrum in range of a
\* target that passed, whose signal-to-noise is below the threshold, is not in
\* the working sample and is marked unusable; the loop raises nothing (the
\* constructor fails only when the working sample ends up empty); each
\* counter is the number of targets that passed its cut and all earlier ones,
\* so the counters decrease along the cuts; and attrition_usable is the number
\* of flagged entries of center_mask.
C21_SilentExclusion ==
    /\ \A t \in DOMAIN ds_seen :
        /\ ~PassedCuts(t) => SpectraOf(t) = {}
        /\ PassedCuts(t) =>
            /\ Cardinality(SpectraOf(t)) = Cardinality(GoodInRange(t))
            /\ \A k \in DOMAIN ds_seen[t].range_spectra :
                (k \notin GoodInRange(t)) <=> (<<t, k>> \in marked_unusable)
    /\ ctor_pc \in {"loop", "done", "IndexError"}
    /\ ctor_pc = "IndexError" => all_raw_spec = <<>>
    /\ attrition.enough_spectra = NumSeen(EnoughSpectra)
    /\ attrition.salt_daymax = NumSeen(PassedCuts)
    /\ attrition.range = NumSeen(HasRange)
    /\ attrition.usable = NumSeen(HasUsable)
    /\ attrition.enough_spectra >= attrition.salt_daymax
    /\ attrition.salt_daymax >= attrition.range
    /\ attrition.range >= attrition.usable
    /\ attrition.usable = Cardinality({i \in DOMAIN center_mask : center_mask[i]})

C21_Witness ==
    /\ ctor_pc = "done"
    /\ Len(ds_seen) = 2
    /\ ~EnoughSpectra(1)
    /\ PassedCuts(2)
    /\ marked_unusable # {}
    /\ attrition = [enough_spectra |-> 1, salt_daymax |-> 1, range |-> 1,
                    usable |-> 1]
    /\ Len(all_raw_spec) = 1
-----------------------------------------------------------------------------
(* Properties of the stages called in any order.                           *)

PipelineStages == {"maximum", "rbtl", "build_masks", "generate_embedding"}

\* The stages upstream of a stage, in the order of the pipeline.
Upstream(stage) ==
    IF stage = "maximum" THEN {}
    ELSE IF stage = "rbtl" THEN {"maximum"}
    ELSE IF stage = "build_masks" THEN {"maximum", "rbtl"}
    ELSE {"maximum", "rbtl", "build_masks"}

\* The result attributes of a stage.
StageResults(stage) ==
    IF stage = "maximum" THEN {"maximum_flux", "maximum_fluxerr"}
    ELSE IF stage = "rbtl" THEN {"rbtl_mags", "rbtl_colors", "scale_flux"}
    ELSE IF stage = "build_masks" THEN {"uncertainty_mask", "redshift_color_mask"}
    ELSE {"embedding"}

\* C12: every stage that has returned normally had all its upstream stages
\* return normally before it; and after a call of a stage some upstream stage
\* of which has not returned normally, the call has failed and the object has
\* none of the stage's result attributes.
C12_UpstreamFirst ==
    /\ \A stage \in returned_ok \cap PipelineStages :
            Upstream(stage) \subseteq returned_ok
    /\ \A stage \in PipelineStages :
        (last_call.op = stage /\ ~(Upstream(stage) \subseteq returned_ok)) =>
            /\ last_call.outcome # "ok"
            /\ StageResults(stage) \cap self.has = {}

\* What the code does ensure: a stage returns normally only when the
\* attributes it reads exist, and the embedding stage only after all three
\* stages upstream of it have returned normally.
C12_ArtifactsFirst ==
    /\ "rbtl" \in returned_ok => "maximum" \in returned_ok
    /\ "build_masks" \in returned_ok =>
            /\ "maximum" \in returned_ok
            /\ "rbtl_result" \in self.has
    /\ "generate_embedding" \in returned_ok =>
            {"maximum", "rbtl", "build_masks"} \subseteq returned_ok

GpEntryPoints == {"fit_gp", "apply_gp_standardization"}

\* C13: when the four stages have returned normally and fit_gp is then called
\* with kind="rbtl", the call returns normally, and embedding and corr_mags
\* hold one entry per target.
C13_PipelineRunsThrough ==
    ( /\ last_call.op = "fit_gp"
      /\ trace.kind = "rbtl"
      /\ PipelineStages \subseteq returned_ok
      /\ last_call.outcome # "OptimizerError" ) =>
        /\ last_call.outcome = "ok"
        /\ Len(self.embedding) = NumTargets
        /\ Len(self.corr_mags) = NumTargets

\* C14: whenever one of the two fitting entry points has started the minimizer,
\* the start vector has an entry at every index _build_gp reads for the phase
\* argument of the call, and the call does not end in an IndexError.
C14_StartVectorFits ==
    (last_call.op \in GpEntryPoints /\ trace.minimized) =>
        /\ last_call.outcome # "IndexError"
        /\ \A k \in BuildGpReads(trace.phase) : k < Len(trace.start)

\* The part of C14 the code satisfies: the same for fit_gp alone.
C14_FitGpStartFits ==
    (last_call.op = "fit_gp" /\ trace.minimized) =>
        /\ last_call.outcome # "IndexError"
        /\ \A k \in BuildGpReads(trace.phase) : k < Len(trace.start)

\* C15: a call of get_mags with a kind other than "rbtl", "salt" and
\* "salt_raw" ends in ManifoldTwinsException, has looked up no attribute of
\* the analysis and leaves the analysis as it was, whatever full and
\* peculiar_velocity are and whatever the analysis has computed so far.
C15_UnknownKindRaises ==
    [][ ( /\ last_call'.op = "get_mags"
          /\ trace'.kind \notin {"rbtl", "salt", "salt_raw"} )
        => ( /\ last_call'.outcome = "ManifoldTwinsException"
             /\ trace'.reads = {}
             /\ self' = self ) ]_vars

C15_Witness ==
    /\ last_call.op = "get_mags"
    /\ trace.kind = "twins"
    /\ last_call.outcome = "ManifoldTwinsException"
    /\ self.has = {}

\* C17: a call of fit_gp during which scene_model cannot be imported, on an
\* analysis whose four stages have returned and whose masks exist, and whose
\* minimizer returned, prints the warning and returns normally, with
\* gp_hyperparameters, corr_mags and corr_vars set and
\* gp_hyperparameter_covariance not assigned.
C17_MissingHelperDegrades ==
    ( /\ last_call.op = "fit_gp"
      /\ trace.kind = "rbtl"
      /\ ~trace.scene_model
      /\ PipelineStages \subseteq returned_ok
      /\ {"mag_mask", "good_mag_mask", "interp_mask"} \subseteq self.has
      /\ last_call.outcome # "OptimizerError" ) =>
        /\ last_call.outcome = "ok"
        /\ trace.warned
        /\ {"gp_hyperparameters", "corr_mags", "corr_vars"} \subseteq self.has
        /\ "gp_hyperparameter_covariance" \notin self.has

\* The number of targets up to i that the uncertainty mask keeps.
RankInMask(i) == Cardinality({j \in 1..i : self.uncertainty_mask[j]})

\* C18: right after generate_embedding has returned, embedding has one row per
\* target; the row of a target the uncertainty mask excludes is the missing
\* marker; the row of the k-th target the mask keeps is the k-th row the
\* transform returned; and the transform was given one row per kept target, in
\* target order, each scale_flux / mean_flux - 1 of its target.
C18_EmbeddingAligned ==
    (last_call.op = "generate_embedding" /\ last_call.outcome = "ok") =>
        /\ Len(self.embedding) = NumTargets
        /\ \A i \in Targets :
            IF ~self.uncertainty_mask[i]
            THEN self.embedding[i] = Missing
            ELSE /\ self.embedding[i] # Missing
                 /\ self.embedding[i].row = RankInMask(i)
                 /\ Len(self.embedding[i].given) = RankInMask(NumTargets)
                 /\ \A j \in Targets :
                        self.uncertainty_mask[j] =>
                            self.embedding[i].given[RankInMask(j)]
                                = (self.scale_flux[j] \div self.mean_flux) - 1

C18_Witness ==
    /\ last_call.op = "generate_embedding"
    /\ last_call.outcome = "ok"
    /\ ~self.uncertainty_mask[1]
    /\ self.uncertainty_mask[2]
    /\ self.embedding[1] = Missing
    /\ self.embedding[2].row = 1

KnownKinds == {"rbtl", "salt", "salt_raw"}

\* C28: a call of apply_gp_standardization with hyperparameters given and a
\* kind that is not known ends in ManifoldTwinsException and leaves
\* gp_hyperparameters and corr_mags, and whether the analysis has them, as
\* they were before the call.
C28_UnknownKindLeavesState ==
    [][ ( /\ last_call'.op = "apply_gp_standardization"
          /\ trace'.kind \notin KnownKinds
          /\ ~trace'.minimized )
        => ( /\ last_call'.outcome = "ManifoldTwinsException"
             /\ self'.gp_hyperparameters = self.gp_hyperparameters
             /\ self'.corr_mags = self.corr_mags
             /\ self'.has = self.has ) ]_vars

\* The part of C28 the code satisfies: the call ends in ManifoldTwinsException
\* and leaves corr_mags as it was, and with hyperparameters=None, where the
\* minimizer is started, it leaves the whole analysis as it was.
C28_UnknownKindRaises ==
    [][ ( /\ last_call'.op = "apply_gp_standardization"
          /\ trace'.kind \notin KnownKinds )
        => ( /\ last_call'.outcome = "ManifoldTwinsException"
             /\ self'.corr_mags = self.corr_mags
             /\ ("corr_mags" \in self'.has) = ("corr_mags" \in self.has)
             /\ trace'.minimized => self' = self ) ]_vars

-----------------------------------------------------------------------------
(* Claims about read_meta.                                                  *)

SpectrumHas(i, key) == key \in DOMAIN env.spectra[i].meta

TargetHas(i, key) == key \in DOMAIN env.spectra[i].target.meta

\* C16: a call of read_meta with a key that no spectrum's and no target's
\* record holds ends in KeyError with no value collected; a call with a key
\* that every spectrum's record holds, or that every target's record holds,
\* returns normally.
C16_LookupError ==
    last_call.op = "read_meta" =>
        /\ (\A i \in 1..MaxSpectra :
                ~SpectrumHas(i, trace.key) /\ ~TargetHas(i, trace.key))
            => (last_call.outcome = "KeyError" /\ trace.res = <<>>)
        /\ ( \/ \A i \in 1..MaxSpectra : SpectrumHas(i, trace.key)
             \/ \A i \in 1..MaxSpectra : TargetHas(i, trace.key) )
            => last_call.outcome = "ok"

\* The part of C16 the code satisfies: the same, on samples in which the
\* records of one level all hold the key or all lack it.
C16_LookupErrorUniform ==
    ( /\ last_call.op = "read_meta"
      /\ \A i, j \in 1..MaxSpectra :
            /\ SpectrumHas(i, trace.key) = SpectrumHas(j, trace.key)
            /\ TargetHas(i, trace.key) = TargetHas(j, trace.key) ) =>
        IF SpectrumHas(1, trace.key) \/ TargetHas(1, trace.key)
        THEN last_call.outcome = "ok"
        ELSE last_call.outcome = "KeyError" /\ trace.res = <<>>

\* The spectra the last call of read_meta was to return a value for.
UsedSpectra ==
    IF trace.center_only THEN BoolIndex(env.spectra, env.center_mask)
    ELSE env.spectra

\* The value the documentation of read_meta promises for a spectrum: the one
\* of its own record when the key is there, else the one of its target.
Documented(spectrum, key) ==
    IF key \in DOMAIN spectrum.meta THEN spectrum.meta[key]
    ELSE spectrum.target.meta[key]

\* C25: when every spectrum asked for holds the key in its own record or in
\* its target's, read_meta returns one value per spectrum asked for (the
\* flagged ones with center_only, else all), each the spectrum's own value
\* when its record holds the key and its target's otherwise.
C25_ResolvedPerSpectrum ==
    ( /\ last_call.op = "read_meta"
      /\ \A k \in DOMAIN UsedSpectra :
            \/ trace.key \in DOMAIN UsedSpectra[k].meta
            \/ trace.key \in DOMAIN UsedSpectra[k].target.meta ) =>
        /\ last_call.outcome = "ok"
        /\ Len(trace.res) = Len(UsedSpectra)
        /\ \A k \in DOMAIN UsedSpectra :
            trace.res[k] = Documented(UsedSpectra[k], trace.key)

\* The part of C25 the code satisfies: a call that returns gives one value per
\* spectrum asked for, all taken from the level at which the first spectrum of
\* the sample holds the key.
C25_OneValuePerSpectrum ==
    (last_call.op = "read_meta" /\ last_call.outcome = "ok") =>
        /\ Len(trace.res) = Len(UsedSpectra)
        /\ \A k \in DOMAIN UsedSpectra :
            trace.res[k] =
                IF trace.key \in DOMAIN env.spectra[1].meta
                THEN UsedSpectra[k].meta[trace.key]
                ELSE UsedSpectra[k].target.meta[trace.key]

-----------------------------------------------------------------------------
(* Claims about the phase_coefficients matrix.                             *)

NonZeroColumns == {c \in DOMAIN trace.row : trace.row[c] # 0}

RECURSIVE RowSum(_)
RowSum(row) == IF row = <<>> THEN 0 ELSE Head(row) + RowSum(Tail(row))

C22_UpToFourCoefficients ==
    ( /\ last_call.op = "phase_coefficients"
      /\ last_call.outcome = "ok"
      /\ env.num_phase_coefficients <= 4 ) =>
        /\ Cardinality(NonZeroColumns) <= 2
        /\ \A c, d \in NonZeroColumns : c - d \in {-1, 0, 1}

\* C23: every column index the loop writes lies in
\* 0 .. num_phase_coefficients - 1, for every phase from -phase_range to
\* phase_range, both included, and the loop does not raise.
C23_IndicesInRange ==
    last_call.op = "phase_coefficients" =>
        /\ last_call.outcome = "ok"
        /\ \A k \in DOMAIN trace.writes :
            /\ 0 <= trace.writes[k].index
            /\ trace.writes[k].index < env.num_phase_coefficients

\* The part of C23 the code satisfies: the same for a phase strictly inside
\* the range.
C23_InsideTheRange ==
    ( /\ last_call.op = "phase_coefficients"
      /\ Abs(env.phase) < env.phase_range ) =>
        /\ last_call.outcome = "ok"
        /\ \A k \in DOMAIN trace.writes :
            /\ 0 <= trace.writes[k].index
            /\ trace.writes[k].index < env.num_phase_coefficients

-----------------------------------------------------------------------------
(* Claims about the per-target attributes of the constructor.              *)

\* C24: after construction the i-th flagged spectrum of the working sample,
\* from which entry i of redshifts is taken and which maximum_map gives as
\* row i, belongs to targets[i], the target that entry i of salt_x1 and of
\* train_mask are taken from and that target_map calls i.
C24_PerTargetArraysAligned ==
    ctor_pc = "assigned" =>
        /\ Len(trace.redshifts) = Len(trace.targets)
        /\ \A i \in DOMAIN trace.targets :
            /\ trace.redshifts[i] = trace.targets[i]
            /\ trace.redshifts[i] = trace.salt_x1[i]
            /\ trace.redshifts[i] = trace.train_mask[i]
            /\ \A k \in DOMAIN all_raw_spec :
                (trace.target_map[k] = i)
                    <=> (env.names[all_raw_spec[k].target] = trace.redshifts[i])

\* The part of C24 the code satisfies: the same when the dataset lists its
\* targets in increasing order.
C24_AlignedWhenSorted ==
    ( /\ ctor_pc = "assigned"
      /\ \A i, j \in DOMAIN env.names : i < j => env.names[i] < env.names[j] ) =>
        /\ Len(trace.redshifts) = Len(trace.targets)
        /\ \A i \in DOMAIN trace.targets :
            /\ trace.redshifts[i] = trace.targets[i]
            /\ \A k \in DOMAIN all_raw_spec :
                (trace.target_map[k] = i)
                    <=> (env.names[all_raw_spec[k].target] = trace.redshifts[i])

-----------------------------------------------------------------------------
(* Claims about the subsets get_mags returns.                              *)

GoodOf(kind) == get_mags(self, kind, FALSE, 300)

FullOf(kind) == get_mags(self, kind, TRUE, 300)

NumTrue(mask) == Cardinality({i \in DOMAIN mask : mask[i]})

\* When get_mags returns both subsets of a kind, every target of the good
\* subset is in the full subset, and good_mask[full_mask] marks as many
\* targets as the good subset holds.
GoodWithinFull(kind) ==
    (GoodOf(kind).outcome = "ok" /\ FullOf(kind).outcome = "ok") =>
        /\ \A i \in Targets : GoodOf(kind).mask[i] => FullOf(kind).mask[i]
        /\ NumTrue(BoolIndex(GoodOf(kind).mask, FullOf(kind).mask))
                = NumTrue(GoodOf(kind).mask)

C27_SaltGoodWithinFull == \A kind \in {"salt", "salt_raw"} : GoodWithinFull(kind)

====
